---- MODULE Spec2Model ----
(***************************************************************************)
(* CSV_Analytics: the splitters (csv_splitter_v2.0 / v2.1 / v3.0), the     *)
(* analysis driver (data_processing, main_V1.0), csv_analytics_pua_v0.1,   *)
(* the loaders and the outlier detectors of csv_analytics v0.1 to v1.1 and *)
(* outlier_detection_V1.0, as state machines.  Text is a sequence of       *)
(* one-character strings, a calendar date is a record [y, m, d], a         *)
(* timestamp is a record [y, m, d, hh, mm].                                *)
(***************************************************************************)
EXTENDS Integers, Sequences, FiniteSets, TLC

VARIABLES
    prog,      \* the script or function that is running
    pc,        \* its position
    arg,       \* the argument of the function under test
    ret,       \* what the function returned
    disk,      \* the input CSV file the user names
    fs,        \* the output directory: path -> file written there
    printed    \* the messages printed since the last prompt

vars == <<prog, pc, arg, ret, disk, fs, printed>>

None == [none |-> TRUE]

(***************************************************************************)
(* Bounds of the model.                                                    *)
(***************************************************************************)
MinYear == 2023
MaxYear == 2024
MaxLen == 3
MaxRows == 3

Years == MinYear..MaxYear
Hours == 0..23
Minutes == {0, 30, 59}

(***************************************************************************)
(* The calendar of datetime: date.toordinal, date.fromordinal and          *)
(* "timestamp - timedelta(days=1)".                                        *)
(***************************************************************************)
IsLeap(y) == (y % 4 = 0) /\ ((y % 100 # 0) \/ (y % 400 = 0))

DaysInMonth(y, m) ==
    IF m = 2 THEN (IF IsLeap(y) THEN 29 ELSE 28)
    ELSE IF m \in {4, 6, 9, 11} THEN 30 ELSE 31

DaysBeforeYear(y) ==
    (y - 1) * 365 + ((y - 1) \div 4) - ((y - 1) \div 100) + ((y - 1) \div 400)

RECURSIVE DaysBeforeMonth(_, _)
DaysBeforeMonth(y, m) ==
    IF m = 1 THEN 0 ELSE DaysBeforeMonth(y, m - 1) + DaysInMonth(y, m - 1)

ToOrdinal(date) == DaysBeforeYear(date.y) + DaysBeforeMonth(date.y, date.m) + date.d

\* datetime._ord2ymd
FromOrdinal(ordinal) ==
    LET n0   == ordinal - 1
        n400 == n0 \div 146097
        r400 == n0 % 146097
        n100 == r400 \div 36524
        r100 == r400 % 36524
        n4   == r100 \div 1461
        r4   == r100 % 1461
        n1   == r4 \div 365
        n    == r4 % 365
        year == n400 * 400 + 1 + n100 * 100 + n4 * 4 + n1
        leap == (n1 = 3) /\ ((n4 # 24) \/ (n100 = 3))
        mon  == (n + 50) \div 32
        prec == DaysBeforeMonth(IF leap THEN 4 ELSE 1, mon)
        back == prec > n
        m    == IF back THEN mon - 1 ELSE mon
        p    == IF back THEN prec - DaysInMonth(IF leap THEN 4 ELSE 1, mon - 1) ELSE prec
    IN  IF n1 = 4 \/ n100 = 4
        THEN [y |-> year - 1, m |-> 12, d |-> 31]
        ELSE [y |-> year, m |-> m, d |-> n - p + 1]

Dates == UNION { { [y |-> yy, m |-> mm, d |-> dd] : dd \in 1..DaysInMonth(yy, mm) }
                 : <<yy, mm>> \in Years \X (1..12) }

NaT == [y |-> 0, m |-> 0, d |-> 0, hh |-> 0, mm |-> 0]

At(date, hh, mm) == [y |-> date.y, m |-> date.m, d |-> date.d, hh |-> hh, mm |-> mm]

Timestamps == { At(date, hh, mm) : <<date, hh, mm>> \in Dates \X Hours \X Minutes }

\* pd.isnull(timestamp)
IsNull(t) == t = NaT \/ t = None

\* Timestamp.date()
DateOf(t) == [y |-> t.y, m |-> t.m, d |-> t.d]

\* timestamp - timedelta(days=n): the time of day is kept
MinusDays(t, n) == At(FromOrdinal(ToOrdinal(DateOf(t)) - n), t.hh, t.mm)

PlusDays(t, n) == At(FromOrdinal(ToOrdinal(DateOf(t)) + n), t.hh, t.mm)

(***************************************************************************)
(* Text: str(date) and strftime('%Y-%m-%d'), strptime(s, '%Y-%m-%d').      *)
(***************************************************************************)
DigitChars == <<"0", "1", "2", "3", "4", "5", "6", "7", "8", "9">>

RECURSIVE Pad(_, _)
Pad(n, w) == IF w = 0 THEN <<>> ELSE Pad(n \div 10, w - 1) \o <<DigitChars[(n % 10) + 1]>>

IsDigit(c) == \E i \in 1..10 : DigitChars[i] = c

DigitVal(c) == (CHOOSE i \in 1..10 : DigitChars[i] = c) - 1

RECURSIVE Num(_)
Num(s) == IF s = <<>> THEN 0 ELSE 10 * Num(SubSeq(s, 1, Len(s) - 1)) + DigitVal(s[Len(s)])

\* '%Y-%m-%d' of a date or timestamp, and str(date)
StrfYmd(t) == Pad(t.y, 4) \o <<"-">> \o Pad(t.m, 2) \o <<"-">> \o Pad(t.d, 2)

\* datetime.strptime(day, '%Y-%m-%d'): midnight of the day named
StrpYmd(s) ==
    [y |-> Num(SubSeq(s, 1, 4)), m |-> Num(SubSeq(s, 6, 7)), d |-> Num(SubSeq(s, 9, 10)),
     hh |-> 0, mm |-> 0]

(***************************************************************************)
(* The operational-day key.                                                *)
(***************************************************************************)
\* a boundary one hour late
calculate_shifted_date_late(timestamp) ==
    IF IsNull(timestamp) THEN None
    ELSE IF timestamp.hh < 8 THEN DateOf(MinusDays(timestamp, 1))
    ELSE DateOf(timestamp)

\* csv_splitter_v3.0
calculate_shifted_date(timestamp) ==
    IF IsNull(timestamp) THEN None
    ELSE IF timestamp.hh < 7 THEN DateOf(MinusDays(timestamp, 1))
    ELSE DateOf(timestamp)

\* csv_splitter_v2.1, inside split_csv_by_day (date is a valid timestamp)
get_day_group(date) ==
    IF date.hh < 7 THEN StrfYmd(MinusDays(date, 1)) ELSE StrfYmd(date)

\* the window starts at midnight: the 7 hours are forgotten
DayWindow_midnight(day) ==
    LET start_date == StrpYmd(day)
        end_date   == PlusDays(start_date, 1)
    IN  [start_date |-> start_date,
         end_date   |-> end_date,
         filename   |-> StrfYmd(start_date) \o <<"_", "t", "o", "_">> \o StrfYmd(end_date)
                        \o <<".", "c", "s", "v">>]

\* csv_splitter_v2.1, split_csv_by_day: the window and the file name of one day group
DayWindow(day) ==
    LET midnight   == StrpYmd(day)
        start_date == [midnight EXCEPT !.hh = 7]
        end_date   == PlusDays(start_date, 1)
    IN  [start_date |-> start_date,
         end_date   |-> end_date,
         filename   |-> StrfYmd(start_date) \o <<"_", "t", "o", "_">> \o StrfYmd(end_date)
                        \o <<".", "c", "s", "v">>]

(***************************************************************************)
(* SpecKey: the key functions applied to every timestamp of the bounded    *)
(* calendar.                                                               *)
(***************************************************************************)
InitKey ==
    /\ prog = "key"
    /\ pc = "call"
    /\ arg \in Timestamps \cup {NaT}
    /\ ret = None
    /\ disk = None
    /\ fs = <<>>
    /\ printed = <<>>

CallShiftedDate ==
    /\ prog = "key" /\ pc = "call"
    /\ ret' = [fn |-> "calculate_shifted_date", value |-> calculate_shifted_date(arg)]
    /\ pc' = "done"
    /\ UNCHANGED <<prog, arg, disk, fs, printed>>

\* NaT.hour is nan, nan < 7 is False, and NaT.strftime raises ValueError
CallDayGroup ==
    /\ prog = "key" /\ pc = "call"
    /\ ret' = IF arg = NaT
              THEN [fn |-> "get_day_group", raised |-> "ValueError"]
              ELSE [fn |-> "get_day_group", raised |-> "", value |-> get_day_group(arg)]
    /\ pc' = IF arg = NaT THEN "done" ELSE "grouped"
    /\ UNCHANGED <<prog, arg, disk, fs, printed>>

NameDayFile ==
    /\ prog = "key" /\ pc = "grouped"
    /\ ret' = [fn |-> "split_csv_by_day", day |-> ret.value, window |-> DayWindow(ret.value)]
    /\ pc' = "done"
    /\ UNCHANGED <<prog, arg, disk, fs, printed>>

NextKey == CallShiftedDate \/ CallDayGroup \/ NameDayFile

SpecKey == InitKey /\ [][NextKey]_vars

(***************************************************************************)
(* What the claims compare the code with: the calendar's previous day by   *)
(* the calendar rule, and instants in minutes.                             *)
(***************************************************************************)
PrevDate(date) ==
    IF date.d > 1 THEN [date EXCEPT !.d = date.d - 1]
    ELSE IF date.m > 1 THEN [y |-> date.y, m |-> date.m - 1, d |-> DaysInMonth(date.y, date.m - 1)]
    ELSE [y |-> date.y - 1, m |-> 12, d |-> 31]

NextDate(date) ==
    IF date.d < DaysInMonth(date.y, date.m) THEN [date EXCEPT !.d = date.d + 1]
    ELSE IF date.m < 12 THEN [y |-> date.y, m |-> date.m + 1, d |-> 1]
    ELSE [y |-> date.y + 1, m |-> 1, d |-> 1]

Instant(t) == ToOrdinal(DateOf(t)) * 1440 + t.hh * 60 + t.mm

ExpectedKey(t) == IF t.hh < 7 THEN PrevDate(DateOf(t)) ELSE DateOf(t)

\* C1: for every valid timestamp t the operational-day key of calculate_shifted_date
\* (v3.0) is t's calendar date minus one day when t.hour < 7 and t's calendar date
\* otherwise, and get_day_group (v2.1) returns that date as YYYY-MM-DD, also across
\* month and year boundaries; 2024-01-01 06:30 gets 2023-12-31, 07:30 gets 2024-01-01.
C1_OperationalDayKey ==
    (prog = "key" /\ arg # NaT) =>
        /\ (pc = "done" /\ ret.fn = "calculate_shifted_date") => ret.value = ExpectedKey(arg)
        /\ (pc = "grouped") => ret.value = StrfYmd(ExpectedKey(arg))
        /\ (pc = "grouped" /\ arg = At([y |-> 2024, m |-> 1, d |-> 1], 6, 30))
               => ret.value = <<"2", "0", "2", "3", "-", "1", "2", "-", "3", "1">>
        /\ (pc = "grouped" /\ arg = At([y |-> 2024, m |-> 1, d |-> 1], 7, 30))
               => ret.value = <<"2", "0", "2", "4", "-", "0", "1", "-", "0", "1">>

C1_Witness ==
    /\ prog = "key" /\ pc = "done" /\ ret.fn = "calculate_shifted_date"
    /\ arg = At([y |-> 2024, m |-> 1, d |-> 1], 6, 30)
    /\ ret.value = [y |-> 2023, m |-> 12, d |-> 31]

InWindow(t, d) ==
    /\ Instant(At(d, 7, 0)) <= Instant(t)
    /\ Instant(t) < Instant(At(d, 7, 0)) + 1440

NearDates(t) == { FromOrdinal(ToOrdinal(DateOf(t)) + k) : k \in {-2, -1, 0, 1, 2} }

\* C4: a record with timestamp t is in the group keyed d if and only if
\* d 07:00 <= t < (d + 1 day) 07:00; a timestamp with hour < 7 shares its group with
\* the previous calendar day's 12:00 and 07:00 starts a new group; the window named in
\* split_csv_by_day's file name (start 07:00 to start + 1 day) is that same window.
C4_GroupIsHalfOpenWindow ==
    (prog = "key" /\ arg # NaT) =>
        /\ (pc = "done" /\ ret.fn = "calculate_shifted_date") =>
              /\ \A d \in NearDates(arg) : (ret.value = d) <=> InWindow(arg, d)
              /\ arg.hh < 7 =>
                    ret.value = calculate_shifted_date(At(PrevDate(DateOf(arg)), 12, 0))
              /\ (arg.hh = 7 /\ arg.mm = 0) =>
                    ret.value # calculate_shifted_date(At(DateOf(arg), 6, 59))
        /\ (pc = "done" /\ ret.fn = "split_csv_by_day") =>
              /\ ret.day = get_day_group(arg)
              /\ Instant(ret.window.start_date) <= Instant(arg)
              /\ Instant(arg) < Instant(ret.window.end_date)
              /\ ret.window.start_date = At(ExpectedKey(arg), 7, 0)
              /\ Instant(ret.window.end_date) = Instant(ret.window.start_date) + 1440
              /\ ret.window.filename =
                    StrfYmd(ExpectedKey(arg)) \o <<"_", "t", "o", "_">>
                    \o StrfYmd(NextDate(ExpectedKey(arg))) \o <<".", "c", "s", "v">>

C4_Witness ==
    /\ prog = "key" /\ pc = "done" /\ ret.fn = "split_csv_by_day"
    /\ arg = At([y |-> 2024, m |-> 1, d |-> 1], 6, 59)
    /\ ret.window.start_date = At([y |-> 2023, m |-> 12, d |-> 31], 7, 0)

(***************************************************************************)
(* sanitize_filename, in its two versions, over every text of at most      *)
(* MaxLen characters of a small alphabet.                                  *)
(***************************************************************************)
Letters ==
    {"a", "b", "c", "d", "e", "f", "g", "h", "i", "j", "k", "l", "m",
     "n", "o", "p", "q", "r", "s", "t", "u", "v", "w", "x", "y", "z",
     "A", "B", "C", "D", "E", "F", "G", "H", "I", "J", "K", "L", "M",
     "N", "O", "P", "Q", "R", "S", "T", "U", "V", "W", "X", "Y", "Z"}

\* the characters of the texts sanitize_filename is tried on
Chars == {"a", "Z", "7", "-", "_", ".", "/", " ", ":"}

\* str.isalnum of one character
IsAlnum(c) == c \in Letters \/ IsDigit(c)

Texts == UNION { [1..k -> Chars] : k \in 0..MaxLen }

\* str.replace('/', '-')
ReplaceSlash(filename) == [i \in 1..Len(filename) |-> IF filename[i] = "/" THEN "-" ELSE filename[i]]

\* the unsafe characters are removed instead of replaced
sanitize_filename_drop(filename) ==
    SelectSeq(filename, LAMBDA c : IsAlnum(c) \/ c \in {"-", "_", "."})

\* csv_splitter_v3.0
sanitize_filename(filename) ==
    [i \in 1..Len(filename) |->
        IF IsAlnum(filename[i]) \/ filename[i] \in {"-", "_", "."} THEN filename[i] ELSE "_"]

\* csv_splitter_v2.0 and csv_splitter_v2.1
sanitize_filename_v2(filename) ==
    LET replaced == ReplaceSlash(filename)
    IN  [i \in 1..Len(replaced) |->
            IF IsAlnum(replaced[i]) \/ replaced[i] \in {"-", "_"} THEN replaced[i] ELSE "_"]

InitSanitize ==
    /\ prog = "sanitize"
    /\ pc = "call"
    /\ arg \in Texts
    /\ ret = None
    /\ disk = None
    /\ fs = <<>>
    /\ printed = <<>>

CallSanitize ==
    /\ prog = "sanitize" /\ pc = "call"
    /\ ret' = [fn |-> "v3.0", value |-> sanitize_filename(arg)]
    /\ pc' = "once"
    /\ UNCHANGED <<prog, arg, disk, fs, printed>>

CallSanitizeV2 ==
    /\ prog = "sanitize" /\ pc = "call"
    /\ ret' = [fn |-> "v2", value |-> sanitize_filename_v2(arg)]
    /\ pc' = "once"
    /\ UNCHANGED <<prog, arg, disk, fs, printed>>

\* the result is sanitized again
CallSanitizeAgain ==
    /\ prog = "sanitize" /\ pc = "once"
    /\ ret' = [fn |-> ret.fn, value |-> ret.value,
               again |-> IF ret.fn = "v3.0" THEN sanitize_filename(ret.value)
                         ELSE sanitize_filename_v2(ret.value)]
    /\ pc' = "twice"
    /\ UNCHANGED <<prog, arg, disk, fs, printed>>

NextSanitize == CallSanitize \/ CallSanitizeV2 \/ CallSanitizeAgain

SpecSanitize == InitSanitize /\ [][NextSanitize]_vars

Retained == {"-", "_", "."}

\* C9 as stated: both versions return a text of the same length in which every
\* character that is alphanumeric, '-', '_' or '.' is kept and every other character
\* is '_', and sanitizing twice gives what sanitizing once gives.
C9_Original ==
    (prog = "sanitize" /\ pc \in {"once", "twice"}) =>
        /\ Len(ret.value) = Len(arg)
        /\ \A i \in 1..Len(arg) :
              ret.value[i] = IF IsAlnum(arg[i]) \/ arg[i] \in Retained THEN arg[i] ELSE "_"
        /\ pc = "twice" => ret.again = ret.value

\* C9 amended: v3.0 keeps alphanumerics, '-', '_' and '.' and writes '_' for every
\* other character; v2.0/v2.1 keep alphanumerics, '-' and '_', write '-' for '/' and
\* '_' for every other character, '.' included; both keep the length and sanitizing
\* twice gives what sanitizing once gives.
C9_SanitizeByVersion ==
    (prog = "sanitize" /\ pc \in {"once", "twice"}) =>
        /\ Len(ret.value) = Len(arg)
        /\ ret.fn = "v3.0" =>
              \A i \in 1..Len(arg) :
                 ret.value[i] = IF IsAlnum(arg[i]) \/ arg[i] \in Retained THEN arg[i] ELSE "_"
        /\ ret.fn = "v2" =>
              \A i \in 1..Len(arg) :
                 ret.value[i] = IF IsAlnum(arg[i]) \/ arg[i] \in {"-", "_"} THEN arg[i]
                                ELSE IF arg[i] = "/" THEN "-" ELSE "_"
        /\ pc = "twice" => ret.again = ret.value

C9_Witness ==
    /\ prog = "sanitize" /\ pc = "twice" /\ ret.fn = "v2"
    /\ arg = <<"a", "/", ".">>
    /\ ret.value = <<"a", "-", "_">>
    /\ ret.again = ret.value

(***************************************************************************)
(* Tables.  A CSV file and a DataFrame are records [columns, rows]: the    *)
(* column names in order, and the rows in order, each row a function from  *)
(* the column names to its cells.  A timestamp cell of a file is a text    *)
(* [fmt, t]: fmt "iso" is 'YYYY-MM-DD HH:MM' of the instant t, fmt "dmy"   *)
(* is 'DD/MM/YYYY HH:MM' of t, fmt "bad" is a text that is no timestamp.   *)
(***************************************************************************)
Iso(t) == [fmt |-> "iso", t |-> t]
Dmy(t) == [fmt |-> "dmy", t |-> t]
BadText == [fmt |-> "bad", t |-> NaT]

Range(s) == { s[i] : i \in DOMAIN s }

SeqsUpTo(S, n) == UNION { [1..k -> S] : k \in 0..n }

Count(x, s) == Cardinality({ i \in DOMAIN s : s[i] = x })

\* the same rows with the same multiplicities
SameBag(s1, s2) == \A x \in Range(s1) \cup Range(s2) : Count(x, s1) = Count(x, s2)

\* pd.read_csv(input_file)
read_csv(file) == [columns |-> file.columns, rows |-> file.rows]

\* pd.to_datetime(text, errors='coerce') of one cell
to_datetime_coerce(text) == IF text.fmt = "iso" THEN text.t ELSE NaT

\* the values of one column: df[col]
Column(df, col) == { df.rows[i][col] : i \in DOMAIN df.rows }

\* df[new] = df[col].apply(f), f given by its value on each cell of the column
Assign(df, new, col, f) ==
    [columns |-> IF \E i \in DOMAIN df.columns : df.columns[i] = new
                 THEN df.columns ELSE Append(df.columns, new),
     rows    |-> [i \in DOMAIN df.rows |->
                    [c \in DOMAIN df.rows[i] \cup {new} |->
                        IF c = new THEN f[df.rows[i][col]] ELSE df.rows[i][c]]]]

\* df[mask], the mask given by its value on each row
Filter(df, mask) ==
    [columns |-> df.columns, rows |-> SelectSeq(df.rows, LAMBDA r : mask[r])]

\* df.drop(columns=[col])
Drop(df, col) ==
    [columns |-> SelectSeq(df.columns, LAMBDA c : c # col),
     rows    |-> [i \in DOMAIN df.rows |->
                    [c \in DOMAIN df.rows[i] \ {col} |-> df.rows[i][c]]]]

Injective(f) == \A i, j \in DOMAIN f : f[i] = f[j] => i = j

\* the rows are sorted the wrong way round
sort_values_descending(df, col) ==
    LET n == Len(df.rows)
    IN  { [columns |-> df.columns, rows |-> [i \in 1..n |-> df.rows[f[i]]]] :
            f \in { g \in [1..n -> 1..n] :
                      /\ Injective(g)
                      /\ \A i \in 1..(n - 1) :
                            Instant(df.rows[g[i]][col]) >= Instant(df.rows[g[i + 1]][col]) } }

\* df.sort_values(col) for a column of valid timestamps: the default sort is not
\* stable, so rows with equal timestamps come out in any order
sort_values(df, col) ==
    LET n == Len(df.rows)
    IN  { [columns |-> df.columns, rows |-> [i \in 1..n |-> df.rows[f[i]]]] :
            f \in { g \in [1..n -> 1..n] :
                      /\ Injective(g)
                      /\ \A i \in 1..(n - 1) :
                            Instant(df.rows[g[i]][col]) <= Instant(df.rows[g[i + 1]][col]) } }

\* the keys of df.groupby(col), in the order the loop visits them (sorted)
RECURSIVE SortedDates(_)
SortedDates(S) ==
    IF S = {} THEN <<>>
    ELSE LET least == CHOOSE d \in S : \A e \in S : ToOrdinal(d) <= ToOrdinal(e)
         IN  <<least>> \o SortedDates(S \ {least})

\* DataFrame.to_csv(path, index=False)
to_csv(files, path, df) ==
    [p \in DOMAIN files \cup {path} |-> IF p = path THEN df ELSE files[p]]

(***************************************************************************)
(* csv_splitter_v3.0: split_csv_by_7am_days and main.                      *)
(***************************************************************************)
output_base_dir == <<"o", "u", "t">>

Office == <<"_", "O", "f", "f", "i", "c", "e">>

\* every day is saved under one name
SavePath7am_fixed(shifted_date) ==
    <<output_base_dir, Office, sanitize_filename(<<"P", "U", "A", "_">> \o Office \o <<".", "c", "s", "v">>)>>

\* os.path.join(output_base_dir, f"{shifted_date}_Office", sanitize_filename(f"PUA_{shifted_date}_Office.csv"))
SavePath7am(shifted_date) ==
    <<output_base_dir,
      StrfYmd(shifted_date) \o Office,
      sanitize_filename(<<"P", "U", "A", "_">> \o StrfYmd(shifted_date) \o Office
                        \o <<".", "c", "s", "v">>)>>

skipped_file == <<output_base_dir, <<"s", "k", "i", "p", "p", "e", "d", "_", "r", "o", "w", "s", ".", "c", "s", "v">>>>

\* no row counts as invalid
InvalidRows_none(df) == Filter(df, [r \in Range(df.rows) |-> FALSE])

\* df[df['ShiftedDate'].isnull()]
InvalidRows(df) == Filter(df, [r \in Range(df.rows) |-> IsNull(r["ShiftedDate"])])

\* df.dropna(subset=['ShiftedDate'])
DropNa(df) == Filter(df, [r \in Range(df.rows) |-> ~IsNull(r["ShiftedDate"])])

\* group.drop(columns=['ShiftedDate']) of one group of df.groupby('ShiftedDate')
GroupFile7am(df, shifted_date) ==
    Drop(Filter(df, [r \in Range(df.rows) |-> r["ShiftedDate"] = shifted_date]), "ShiftedDate")

\* the loop over the groups: each group is saved and its path printed
RECURSIVE SaveGroups7am(_, _, _)
SaveGroups7am(out, df, keys) ==
    IF keys = <<>> THEN out
    ELSE LET output_path == SavePath7am(Head(keys))
         IN  SaveGroups7am(
                 [files   |-> to_csv(out.files, output_path, GroupFile7am(df, Head(keys))),
                  printed |-> Append(out.printed, [msg |-> "Saved file", path |-> output_path])],
                 df, Tail(keys))

\* split_csv_by_7am_days up to the sort: the frame with ShiftedDate, or the error
Load7am(file) ==
    LET df == read_csv(file)
    IN  IF \E i \in DOMAIN df.columns : df.columns[i] = "Timestamp"
        THEN [error |-> "",
              df    |-> LET converted == Assign(df, "Timestamp", "Timestamp",
                                     [text \in Column(df, "Timestamp") |-> to_datetime_coerce(text)])
                        IN  Assign(converted, "ShiftedDate", "Timestamp",
                                   [timestamp \in Column(converted, "Timestamp") |->
                                       calculate_shifted_date(timestamp)])]
        ELSE [error |-> "Timestamp column not found in the dataset.", df |-> None]

\* split_csv_by_7am_days after the sort: what it writes and prints, given the sorted frame
Save7am(files, loaded, sorted) ==
    LET skipped_rows == InvalidRows(loaded)
        keys    == SortedDates({ sorted.rows[i]["ShiftedDate"] : i \in DOMAIN sorted.rows })
        saved   == SaveGroups7am([files |-> files, printed |-> <<>>], sorted, keys)
        skipped == IF skipped_rows.rows # <<>>
                   THEN [files   |-> to_csv(saved.files, skipped_file, skipped_rows),
                         printed |-> Append(saved.printed, [msg |-> "Skipped rows saved to", path |-> skipped_file])]
                   ELSE saved
    IN  [files   |-> skipped.files,
         printed |-> Append(skipped.printed, [msg |-> "Processing complete", days |-> Len(keys)])]

HasColumn(file, col) == \E i \in DOMAIN file.columns : file.columns[i] = col

\* the whole of split_csv_by_7am_days(input_file, output_base_dir): the outcomes
\* [files, printed], one for each order the sort may leave equal timestamps in
split_csv_by_7am_days(file, files) ==
    LET loaded == Load7am(file)
    IN  IF loaded.error # ""
        THEN { [files   |-> files,
                printed |-> <<[msg |-> "Error reading or parsing the file", error |-> loaded.error]>>] }
        ELSE { Save7am(files, loaded.df, sorted) :
                 sorted \in sort_values(DropNa(loaded.df), "Timestamp") }

D1231 == [y |-> 2023, m |-> 12, d |-> 31]
D0101 == [y |-> 2024, m |-> 1, d |-> 1]
D0102 == [y |-> 2024, m |-> 1, d |-> 2]

\* the input files of the splitter: a timestamp column named Timestamp (or named
\* Date: no Timestamp column) and a Value column
TimeTexts7am == { Iso(At(D1231, 12, 0)), Iso(At(D0101, 6, 30)), Iso(At(D0101, 7, 30)), BadText }

Rows7am(tc) == { (tc :> text) @@ ("Value" :> v) : text \in TimeTexts7am, v \in {10, 20} }

Files7am ==
    UNION { { [columns |-> <<tc, "Value">>, rows |-> rows] : rows \in SeqsUpTo(Rows7am(tc), MaxRows) }
            : tc \in {"Timestamp", "Date"} }

Init7am ==
    /\ prog = "csv_splitter_v3.0"
    /\ pc = "prompt"
    /\ arg = None
    /\ ret = None
    /\ disk \in Files7am
    /\ fs = <<>>
    /\ printed = <<>>

\* input_file.lower() == 'q'
Quit7am ==
    /\ prog = "csv_splitter_v3.0" /\ pc = "prompt"
    /\ pc' = "done"
    /\ printed' = <<[msg |-> "Processing complete. Goodbye!"]>>
    /\ UNCHANGED <<prog, arg, ret, disk, fs>>

\* not os.path.exists(input_file): the error is printed and the prompt comes again
MissingPath7am ==
    /\ prog = "csv_splitter_v3.0" /\ pc = "prompt"
    /\ pc' = "prompt"
    /\ printed' = <<[msg |-> "Error: File does not exist. Please try again."]>>
    /\ UNCHANGED <<prog, arg, ret, disk, fs>>

\* the user names the file: split_csv_by_7am_days runs, then the y/n question
Split7am ==
    /\ prog = "csv_splitter_v3.0" /\ pc = "prompt"
    /\ \E out \in split_csv_by_7am_days(disk, fs) :
          /\ fs' = out.files
          /\ printed' = out.printed
    /\ pc' = "another"
    /\ UNCHANGED <<prog, arg, ret, disk>>

Another7am ==
    /\ prog = "csv_splitter_v3.0" /\ pc = "another"
    /\ \/ pc' = "prompt" /\ printed' = <<>>
       \/ pc' = "done" /\ printed' = <<[msg |-> "Processing complete. Goodbye!"]>>
    /\ UNCHANGED <<prog, arg, ret, disk, fs>>

Next7am == Quit7am \/ MissingPath7am \/ Split7am \/ Another7am

(***************************************************************************)
(* csv_splitter_v2.0 / v2.1: split_csv_by_profile_and_date (the same code  *)
(* in both), generate_key_notes, and v2.1's split_csv_by_day and main.     *)
(***************************************************************************)
Hm(t) == Pad(t.hh, 2) \o <<":">> \o Pad(t.mm, 2)

DmyText(t) == Pad(t.d, 2) \o <<"/">> \o Pad(t.m, 2) \o <<"/">> \o Pad(t.y, 4)

\* str.split() of a timestamp cell: its whitespace-separated words
Words(text) ==
    IF text.fmt = "iso" THEN <<StrfYmd(text.t), Hm(text.t)>>
    ELSE IF text.fmt = "dmy" THEN <<DmyText(text.t), Hm(text.t)>>
    ELSE <<<<"n", "/", "a">>>>

exclude_columns == {"DATE_ID", "DEAD_CYCLE_TIME"}

\* the elements of s, each once, in the order of their first appearance (dict keys)
RECURSIVE Distinct(_)
Distinct(s) ==
    IF s = <<>> THEN <<>>
    ELSE LET front == Distinct(SubSeq(s, 1, Len(s) - 1))
         IN  IF s[Len(s)] \in Range(front) THEN front ELSE Append(front, s[Len(s)])

\* row['Date'].split()[0]
date_str_of(row) == Words(row["Date"])[1]

\* profile_date_data as the write loops visit it: one entry [profile, date_str, rows]
\* for each profile (in first-appearance order) and each of its dates (likewise)
RECURSIVE ProfileDateEntries(_, _, _)
ProfileDateEntries(rows, fieldnames, profiles) ==
    IF profiles = <<>> THEN <<>>
    ELSE LET profile == Head(profiles)
             mine    == SelectSeq(rows, LAMBDA r : r["PROFILE"] = profile)
             dates   == Distinct([i \in DOMAIN mine |-> date_str_of(mine[i])])
         IN  [k \in DOMAIN dates |->
                [profile  |-> profile,
                 date_str |-> dates[k],
                 rows     |-> LET picked == SelectSeq(mine, LAMBDA r : date_str_of(r) = dates[k])
                              IN  [i \in DOMAIN picked |->
                                     [c \in DOMAIN picked[i] \cap Range(fieldnames) |-> picked[i][c]]]]]
             \o ProfileDateEntries(rows, fieldnames, Tail(profiles))

by_profile == <<"b", "y", "_", "p", "r", "o", "f", "i", "l", "e">>
by_date == <<"b", "y", "_", "d", "a", "t", "e">>
by_day == <<"b", "y", "_", "d", "a", "y">>
dot_csv == <<".", "c", "s", "v">>

GroupFileName(profile, date_str) ==
    sanitize_filename_v2(profile) \o <<"_">> \o sanitize_filename_v2(date_str) \o dot_csv

\* os.path.join(output_base_dir, 'by_profile', sanitized_profile, f"{sanitized_profile}_{sanitized_date}.csv")
ProfileFilePath(profile, date_str) ==
    <<output_base_dir, by_profile, sanitize_filename_v2(profile), GroupFileName(profile, date_str)>>

\* os.path.join(output_base_dir, 'by_date', sanitized_date, f"{sanitized_profile}_{sanitized_date}.csv")
DateFilePath(profile, date_str) ==
    <<output_base_dir, by_date, sanitize_filename_v2(date_str), GroupFileName(profile, date_str)>>

\* the write loops: each entry is written to its profile file and to its date file
RECURSIVE WriteEntries(_, _, _)
WriteEntries(files, fieldnames, entries) ==
    IF entries = <<>> THEN files
    ELSE LET e       == Head(entries)
             written == [columns |-> fieldnames, rows |-> e.rows]
         IN  WriteEntries(
                 to_csv(to_csv(files, ProfileFilePath(e.profile, e.date_str), written),
                        DateFilePath(e.profile, e.date_str), written),
                 fieldnames, Tail(entries))

\* get_current_date(): the day the script runs
current_date == StrfYmd([y |-> 2024, m |-> 1, d |-> 3])

\* os.path.join(output_base_dir, f'key_notes_{current_date}.txt')
key_notes_file ==
    <<output_base_dir,
      <<"k", "e", "y", "_", "n", "o", "t", "e", "s", "_">> \o current_date \o <<".", "t", "x", "t">>>>

\* generate_key_notes: one line per profile and date with its number of records
generate_key_notes(files, entries) ==
    to_csv(files, key_notes_file,
           [lines |-> [k \in DOMAIN entries |->
                         [profile     |-> entries[k].profile,
                          date_str    |-> entries[k].date_str,
                          num_records |-> Len(entries[k].rows)]]])

\* split_csv_by_profile_and_date(input_file, output_base_dir): [raised, files, printed].
\* row['PROFILE'] and row['Date'] raise KeyError on the first row when the column is
\* missing; nothing is written before every row is read
split_csv_by_profile_and_date(file, files) ==
    LET fieldnames == SelectSeq(file.columns, LAMBDA c : c \notin exclude_columns)
        missing    == file.rows # <<>> /\ (~HasColumn(file, "PROFILE") \/ ~HasColumn(file, "Date"))
        profiles   == Distinct([i \in DOMAIN file.rows |-> file.rows[i]["PROFILE"]])
        entries    == ProfileDateEntries(file.rows, fieldnames, profiles)
    IN  IF missing
        THEN [raised |-> "KeyError", files |-> files, printed |-> <<>>]
        ELSE [raised  |-> "",
              files   |-> generate_key_notes(WriteEntries(files, fieldnames, entries), entries),
              printed |-> <<[msg |-> "Split CSV files based on profiles", profiles |-> Len(profiles)],
                            [msg |-> "Key notes have been written to", path |-> key_notes_file]>>]

\* the timestamp pd.read_csv(parse_dates=['Date']) reads in one cell: a text with
\* slashes is read month first when that is a date
parse_dates_cell(text) ==
    IF text.fmt = "iso" THEN text.t
    ELSE IF text.fmt = "dmy" /\ text.t.d <= 12 THEN [text.t EXCEPT !.m = text.t.d, !.d = text.t.m]
    ELSE IF text.fmt = "dmy" THEN text.t
    ELSE NaT

\* whether pd.read_csv(parse_dates=['Date']) converts the column: it does when every
\* cell has one format, it leaves the column as text when a cell is no timestamp, and
\* with mixed formats it depends on the pandas version
DatesParsed(file) ==
    LET fmts == { file.rows[i]["Date"].fmt : i \in DOMAIN file.rows }
    IN  IF Cardinality(fmts) <= 1 /\ fmts \subseteq {"iso", "dmy"} THEN {TRUE}
        ELSE IF fmts \subseteq {"iso", "dmy"} THEN {TRUE, FALSE}
        ELSE {FALSE}

RECURSIVE SortedDays(_)
SortedDays(S) ==
    IF S = {} THEN <<>>
    ELSE LET least == CHOOSE d \in S : \A e \in S : ToOrdinal(StrpYmd(d)) <= ToOrdinal(StrpYmd(e))
         IN  <<least>> \o SortedDays(S \ {least})

DayFilePath(day) == <<output_base_dir, by_day, DayWindow(day).filename>>

\* group.to_csv(output_path) of one group of df.groupby('day_group'): the index (Date)
\* is written first, then every column of df
DayGroupFile(df, day) ==
    [columns |-> <<"Date">> \o df.columns,
     rows    |-> SelectSeq(df.rows, LAMBDA r : r["day_group"] = day)]

RECURSIVE SaveDayGroups(_, _, _)
SaveDayGroups(out, df, days) ==
    IF days = <<>> THEN out
    ELSE LET output_path == DayFilePath(Head(days))
         IN  SaveDayGroups(
                 [files   |-> to_csv(out.files, output_path, DayGroupFile(df, Head(days))),
                  printed |-> Append(out.printed, [msg |-> "Saved file", path |-> output_path])],
                 df, Tail(days))

\* split_csv_by_day(input_file, output_base_dir): the outcomes [raised, files, printed].
\* A missing Date column makes read_csv raise ValueError; a Date column left as text
\* makes get_day_group raise AttributeError (str has no hour)
split_csv_by_day(file, files) ==
    IF ~HasColumn(file, "Date")
    THEN { [raised |-> "ValueError", files |-> files, printed |-> <<>>] }
    ELSE { IF ~parsed /\ file.rows # <<>>
           THEN [raised |-> "AttributeError", files |-> files, printed |-> <<>>]
           ELSE LET read    == Assign(read_csv(file), "Date", "Date",
                                      [text \in Column(file, "Date") |-> parse_dates_cell(text)])
                    indexed == [columns |-> SelectSeq(read.columns, LAMBDA c : c # "Date"),
                                rows    |-> read.rows]
                    df      == Assign(indexed, "day_group", "Date",
                                      [date \in Column(indexed, "Date") |-> get_day_group(date)])
                    days    == SortedDays({ df.rows[i]["day_group"] : i \in DOMAIN df.rows })
                    saved   == SaveDayGroups([files |-> files, printed |-> <<>>], df, days)
                IN  [raised |-> "", files |-> saved.files, printed |-> saved.printed]
           : parsed \in DatesParsed(file) }

\* the input files of csv_splitter_v2.1: PROFILE, Date and DATE_ID columns, or no
\* Date column
ProfileNames == { <<"A", " ", "B">>, <<"A", "_", "B">> }

DateTexts21 == { Iso(At(D0101, 6, 30)), Iso(At(D0101, 7, 30)), Dmy(At(D0101, 6, 30)), Iso(At(D0102, 6, 30)) }

Rows21 == { [PROFILE |-> profile, Date |-> text, DATE_ID |-> 1] :
              profile \in ProfileNames, text \in DateTexts21 }

Files21 ==
    { [columns |-> <<"PROFILE", "Date", "DATE_ID">>, rows |-> rows] : rows \in SeqsUpTo(Rows21, MaxRows) }
    \cup { [columns |-> <<"PROFILE", "DATE_ID">>, rows |-> rows] :
             rows \in SeqsUpTo({ [PROFILE |-> profile, DATE_ID |-> 1] : profile \in ProfileNames }, 1) }

Init21 ==
    /\ prog = "csv_splitter_v2.1"
    /\ pc = "prompt"
    /\ arg = ""
    /\ ret = None
    /\ disk \in Files21
    /\ fs = <<>>
    /\ printed = <<>>

Quit21 ==
    /\ prog = "csv_splitter_v2.1" /\ pc = "prompt"
    /\ pc' = "done"
    /\ printed' = <<[msg |-> "CSV splitting complete. Goodbye!"]>>
    /\ UNCHANGED <<prog, arg, ret, disk, fs>>

\* a path that does not exist, or one that does not end in .csv
BadPath21 ==
    /\ prog = "csv_splitter_v2.1" /\ pc = "prompt"
    /\ pc' = "prompt"
    /\ \/ printed' = <<[msg |-> "Error: File does not exist. Please try again."]>>
       \/ printed' = <<[msg |-> "Error: Please select a CSV file."]>>
    /\ UNCHANGED <<prog, arg, ret, disk, fs>>

\* the file is named and the method asked for is neither 'day' nor 'profile'
InvalidMethod21 ==
    /\ prog = "csv_splitter_v2.1" /\ pc = "prompt"
    /\ pc' = "prompt"
    /\ printed' = <<[msg |-> "Invalid option. Please enter 'day' or 'profile'."]>>
    /\ UNCHANGED <<prog, arg, ret, disk, fs>>

Caught21(out) ==
    IF out.raised # ""
    THEN <<[msg |-> "An error occurred", error |-> out.raised]>>
    ELSE out.printed

SplitDay21 ==
    /\ prog = "csv_splitter_v2.1" /\ pc = "prompt"
    /\ \E out \in split_csv_by_day(disk, fs) :
          /\ fs' = out.files
          /\ printed' = Caught21(out)
    /\ arg' = "day"
    /\ pc' = "another"
    /\ UNCHANGED <<prog, ret, disk>>

SplitProfile21 ==
    /\ prog = "csv_splitter_v2.1" /\ pc = "prompt"
    /\ LET out == split_csv_by_profile_and_date(disk, fs)
       IN  /\ fs' = out.files
           /\ printed' = Caught21(out)
    /\ arg' = "profile"
    /\ pc' = "another"
    /\ UNCHANGED <<prog, ret, disk>>

Another21 ==
    /\ prog = "csv_splitter_v2.1" /\ pc = "another"
    /\ \/ pc' = "prompt" /\ printed' = <<>>
       \/ pc' = "done" /\ printed' = <<[msg |-> "CSV splitting complete. Goodbye!"]>>
    /\ UNCHANGED <<prog, arg, ret, disk, fs>>

Next21 == Quit21 \/ BadPath21 \/ InvalidMethod21 \/ SplitDay21 \/ SplitProfile21 \/ Another21

(***************************************************************************)
(* data_processing.load_data and main_V1.0's loop: the prompt, the load    *)
(* and choice 1 (analyze_data).  main has no try around them: an exception *)
(* ends the process.                                                       *)
(***************************************************************************)
\* load_data(file_path): the Date column, when there is one, is converted and made
\* the index; without one the frame keeps its default index 0, 1, 2, ...
load_data(file) ==
    LET df == read_csv(file)
    IN  IF HasColumn(df, "Date")
        THEN LET converted == Assign(df, "Date", "Date",
                                    [text \in Column(df, "Date") |-> to_datetime_coerce(text)])
             IN  [index   |-> [i \in DOMAIN converted.rows |-> converted.rows[i]["Date"]],
                  dated   |-> TRUE,
                  columns |-> SelectSeq(converted.columns, LAMBDA c : c # "Date"),
                  rows    |-> converted.rows]
        ELSE [index   |-> [i \in DOMAIN df.rows |-> i - 1],
              dated   |-> FALSE,
              columns |-> df.columns,
              rows    |-> df.rows]

report_prefix == <<"a", "n", "a", "l", "y", "s", "i", "s", "_", "r", "e", "p", "o", "r", "t", "_">>

\* analyze_data(input_file, output_dir) up to the report's name:
\* df.index[0].strftime('%Y-%m-%d') raises IndexError on an empty frame,
\* AttributeError on the default integer index and ValueError on NaT
analyze_data(file, files) ==
    LET df == load_data(file)
    IN  IF df.rows = <<>> THEN [raised |-> "IndexError", files |-> files, printed |-> <<>>]
        ELSE IF ~df.dated THEN [raised |-> "AttributeError", files |-> files, printed |-> <<>>]
        ELSE IF df.index[1] = NaT THEN [raised |-> "ValueError", files |-> files, printed |-> <<>>]
        ELSE LET output_file == <<output_base_dir,
                                  report_prefix \o StrfYmd(df.index[1]) \o <<".", "p", "d", "f">>>>
             IN  [raised  |-> "",
                  files   |-> to_csv(files, output_file, [report |-> df.columns, rows |-> df.rows]),
                  printed |-> <<[msg |-> "Analysis complete. Report saved as", path |-> output_file]>>]

TimeTextsV1 ==
    { Iso(At(D0101, 6, 30)), Iso(At(D0101, 7, 30)), Iso(At(D0102, 7, 0)), BadText }

RowsV1(tc) == { (tc :> text) @@ ("Value" :> 10) : text \in TimeTextsV1 }

FilesV1 ==
    UNION { { [columns |-> <<tc, "Value">>, rows |-> rows] : rows \in SeqsUpTo(RowsV1(tc), MaxRows) }
            : tc \in {"Date", "Time"} }

InitV1 ==
    /\ prog = "main_V1.0"
    /\ pc = "prompt"
    /\ arg = None
    /\ ret = None
    /\ disk \in FilesV1
    /\ fs = <<>>
    /\ printed = <<>>

QuitV1 ==
    /\ prog = "main_V1.0" /\ pc = "prompt"
    /\ pc' = "done"
    /\ printed' = <<>>
    /\ arg' = None
    /\ UNCHANGED <<prog, ret, disk, fs>>

\* a path that does not exist, or a file name verify_file_format rejects
BadPathV1 ==
    /\ prog = "main_V1.0" /\ pc = "prompt"
    /\ pc' = "prompt"
    /\ \/ printed' = <<[msg |-> "Error: File does not exist. Please try again."]>>
       \/ printed' = <<[msg |-> "Error: File format is incorrect."]>>
    /\ arg' = None
    /\ UNCHANGED <<prog, ret, disk, fs>>

\* df = load_data(input_file), then the menu
LoadV1 ==
    /\ prog = "main_V1.0" /\ pc = "prompt"
    /\ ret' = load_data(disk)
    /\ pc' = "choice"
    /\ printed' = <<[msg |-> "Please choose an analysis option"]>>
    /\ arg' = None
    /\ UNCHANGED <<prog, disk, fs>>

\* choice '1': analyze_data(input_file, output_dir)
Choice1V1 ==
    /\ prog = "main_V1.0" /\ pc = "choice"
    /\ LET out == analyze_data(disk, fs)
       IN  /\ fs' = out.files
           /\ printed' = IF out.raised # ""
                         THEN <<[msg |-> "Traceback", error |-> out.raised]>>
                         ELSE out.printed
           /\ pc' = IF out.raised # "" THEN "crashed" ELSE "prompt"
           /\ arg' = [choice |-> "1", selected |-> Len(ret.rows), skipped |-> 0,
                      wrote |-> out.files # fs]
    /\ UNCHANGED <<prog, ret, disk>>

\* a < b and a <= b on timestamps: every comparison with NaT is False
Lt(a, b) == a # NaT /\ b # NaT /\ Instant(a) < Instant(b)

Le(a, b) == a # NaT /\ b # NaT /\ Instant(a) <= Instant(b)

\* df[(df.index >= lo) & (df.index < hi)] and df[(df.index >= lo) & (df.index <= hi)]:
\* the positions of the rows selected
RowsFrom(df, lo, hi, closed) ==
    { i \in DOMAIN df.rows :
        Le(lo, df.index[i]) /\ (IF closed THEN Le(df.index[i], hi) ELSE Lt(df.index[i], hi)) }

\* while current_day < end_time
DayLoopContinues_inclusive(current_day, end_time) == Le(current_day, end_time)

DayLoopContinues(current_day, end_time) == Lt(current_day, end_time)

\* choice '2' up to its loop: df.index[0] raises IndexError on an empty frame,
\* .replace(hour=7, ...) raises AttributeError on the default integer index and
\* gives NaT on NaT
choice2(df) ==
    IF df.rows = <<>> THEN [raised |-> "IndexError", current_day |-> NaT, end_time |-> NaT]
    ELSE IF ~df.dated THEN [raised |-> "AttributeError", current_day |-> NaT, end_time |-> NaT]
    ELSE LET first      == df.index[1]
             start_time == IF first = NaT THEN NaT ELSE [first EXCEPT !.hh = 7, !.mm = 0]
             end_time   == df.index[Len(df.index)]
         IN  [raised |-> "", current_day |-> start_time, end_time |-> end_time]

\* arg holds the loop's variables, the windows handed to analyze_data, the rows
\* of the last of them and the number of windows passed over as empty
Choice2V1 ==
    /\ prog = "main_V1.0" /\ pc = "choice"
    /\ LET out == choice2(ret)
       IN  /\ printed' = IF out.raised # ""
                         THEN <<[msg |-> "Traceback", error |-> out.raised]>>
                         ELSE <<>>
           /\ pc' = IF out.raised # "" THEN "crashed" ELSE "day_loop"
           /\ arg' = [choice |-> "2", selected |-> 0, skipped |-> 0, wrote |-> FALSE,
                      current_day |-> out.current_day, end_time |-> out.end_time,
                      windows |-> {}]
    /\ UNCHANGED <<prog, ret, disk, fs>>

\* one turn of the while loop of choice '2': an empty day is passed over; a day
\* with rows is handed to analyze_data as a DataFrame, and load_data's
\* pd.read_csv raises ValueError on it (not a path or a buffer)
DayStepV1 ==
    /\ prog = "main_V1.0" /\ pc = "day_loop"
    /\ IF ~DayLoopContinues(arg.current_day, arg.end_time)
       THEN /\ pc' = "prompt"
            /\ printed' = <<>>
            /\ arg' = arg
       ELSE LET next_day == PlusDays(arg.current_day, 1)
                day_df   == RowsFrom(ret, arg.current_day, next_day, FALSE)
            IN  IF day_df # {}
                THEN /\ pc' = "crashed"
                     /\ printed' = <<[msg |-> "Traceback", error |-> "ValueError"]>>
                     /\ arg' = [arg EXCEPT !.selected = Cardinality(day_df),
                                           !.windows = @ \cup {arg.current_day}]
                ELSE /\ pc' = "day_loop"
                     /\ printed' = <<>>
                     /\ arg' = [arg EXCEPT !.current_day = next_day, !.skipped = @ + 1]
    /\ UNCHANGED <<prog, ret, disk, fs>>

\* what the user may type as a date
DateInputs == { StrfYmd(At(date, 0, 0)) : date \in {D1231, D0101, D0102} } \cup { <<"x">> }

\* pd.to_datetime(text) of such an input: midnight of the day, or None for ValueError
to_datetime_input(text) ==
    IF Len(text) = 10 /\ text[5] = "-" /\ text[8] = "-"
       /\ \A i \in {1, 2, 3, 4, 6, 7, 9, 10} : IsDigit(text[i])
    THEN StrpYmd(text) ELSE None

\* choice '3' with the two dates typed; comparing the default integer index with
\* a Timestamp raises TypeError; a non-empty selection is handed to analyze_data
\* as a DataFrame, pd.read_csv raises ValueError on it and the except ValueError
\* of the choice prints the date-format message
choice3(df, start_text, end_text) ==
    LET start_date == to_datetime_input(start_text)
        end_date   == to_datetime_input(end_text)
    IN  IF start_date = None \/ end_date = None
        THEN [raised |-> "", selected |-> 0,
              printed |-> <<[msg |-> "Invalid date format. Please use YYYY-MM-DD."]>>]
        ELSE IF ~df.dated
        THEN [raised |-> "TypeError", selected |-> 0, printed |-> <<>>]
        ELSE LET custom_df == RowsFrom(df, start_date, end_date, TRUE)
             IN  IF custom_df = {}
                 THEN [raised |-> "", selected |-> 0,
                       printed |-> <<[msg |-> "No data found in the specified date range."]>>]
                 ELSE [raised |-> "", selected |-> Cardinality(custom_df),
                       printed |-> <<[msg |-> "Invalid date format. Please use YYYY-MM-DD."]>>]

Choice3V1 ==
    /\ prog = "main_V1.0" /\ pc = "choice"
    /\ \E start_text \in DateInputs, end_text \in DateInputs :
          LET out == choice3(ret, start_text, end_text)
          IN  /\ printed' = IF out.raised # ""
                            THEN <<[msg |-> "Traceback", error |-> out.raised]>>
                            ELSE out.printed
              /\ pc' = IF out.raised # "" THEN "crashed" ELSE "prompt"
              /\ arg' = [choice |-> "3", selected |-> out.selected, skipped |-> 0,
                         wrote |-> FALSE, start_date |-> start_text, end_date |-> end_text]
    /\ UNCHANGED <<prog, ret, disk, fs>>

InvalidChoiceV1 ==
    /\ prog = "main_V1.0" /\ pc = "choice"
    /\ pc' = "prompt"
    /\ printed' = <<[msg |-> "Invalid choice. Please enter 1, 2, or 3."]>>
    /\ arg' = None
    /\ UNCHANGED <<prog, ret, disk, fs>>

NextV1 ==
    \/ QuitV1 \/ BadPathV1 \/ LoadV1 \/ Choice1V1 \/ Choice2V1 \/ DayStepV1 \/ Choice3V1
    \/ InvalidChoiceV1

(***************************************************************************)
(* csv_analytics_pua_v0.1: main runs once, on one file.                    *)
(***************************************************************************)
error_log == <<<<"e", "r", "r", "o", "r", "_", "l", "o", "g", ".", "t", "x", "t">>>>

pdf_filename == <<<<"E", "n", "e", "r", "g", "y", "_", "R", "e", "p", "o", "r", "t", ".", "p", "d", "f">>>>

\* log_error(message): the message is appended to error_log.txt
log_error(files, message) ==
    to_csv(files, error_log,
           [log |-> IF error_log \in DOMAIN files
                    THEN Append(files[error_log].log, message) ELSE <<message>>])

required_columns == <<"timestamp", "total_real_energy", "total_real_power">>

\* validate_columns(data, required_columns)
validate_columns(data) == \A i \in DOMAIN required_columns : HasColumn(data, required_columns[i])

\* main() once the file is known to exist: [files, printed]
main_pua(file, files) ==
    LET data == read_csv(file)
    IN  IF ~validate_columns(data)
        THEN [files   |-> log_error(files, "Missing columns"),
              printed |-> <<[msg |-> "Error: Missing required columns. Check the error log for details."]>>]
        ELSE IF \E text \in Column(data, "timestamp") : text.fmt = "bad"
        THEN [files   |-> log_error(files, "Data parsing error"),
              printed |-> <<[msg |-> "Error: Failed to parse data. Check the error log for details."]>>]
        ELSE [files   |-> to_csv(files, pdf_filename, [report |-> data.columns, rows |-> data.rows]),
              printed |-> <<[msg |-> "Report successfully saved as", path |-> pdf_filename]>>]

RowsPua(columns) ==
    { [c \in Range(columns) |-> IF c = "timestamp" THEN text ELSE 10] :
        text \in { Iso(At(D0101, 6, 30)), BadText } }

FilesPua ==
    UNION { { [columns |-> columns, rows |-> rows] : rows \in SeqsUpTo(RowsPua(columns), MaxRows) }
            : columns \in { required_columns, <<"timestamp", "total_real_energy">> } }

InitPua ==
    /\ prog = "csv_analytics_pua_v0.1"
    /\ pc = "prompt"
    /\ arg = None
    /\ ret = None
    /\ disk \in FilesPua
    /\ fs = <<>>
    /\ printed = <<>>

\* not os.path.exists(file_path): logged, printed, and main returns
NotFoundPua ==
    /\ prog = "csv_analytics_pua_v0.1" /\ pc = "prompt"
    /\ fs' = log_error(fs, "File not found")
    /\ printed' = <<[msg |-> "Error: File not found. Check the path and try again."]>>
    /\ pc' = "done"
    /\ UNCHANGED <<prog, arg, ret, disk>>

RunPua ==
    /\ prog = "csv_analytics_pua_v0.1" /\ pc = "prompt"
    /\ LET out == main_pua(disk, fs)
       IN  /\ fs' = out.files
           /\ printed' = out.printed
    /\ pc' = "done"
    /\ UNCHANGED <<prog, arg, ret, disk>>

NextPua == NotFoundPua \/ RunPua

(***************************************************************************)
(* The scripts of the repository, each started on an input file.           *)
(***************************************************************************)
Init == Init7am \/ Init21 \/ InitV1 \/ InitPua

Next == Next7am \/ Next21 \/ NextV1 \/ NextPua

Spec == Init /\ [][Next]_vars

(***************************************************************************)
(* Claims about one run of split_csv_by_7am_days: the state right after    *)
(* the run, when the y/n question is asked.                                *)
(***************************************************************************)
Ran7am == prog = "csv_splitter_v3.0" /\ pc = "another" /\ HasColumn(disk, "Timestamp")

\* the rows of the input file as the splitter reads them: Timestamp parsed
ParsedRows7am == [i \in DOMAIN disk.rows |->
                    [disk.rows[i] EXCEPT !["Timestamp"] = to_datetime_coerce(@)]]

ValidRows7am == SelectSeq(ParsedRows7am, LAMBDA r : r["Timestamp"] # NaT)

InvalidRows7am == SelectSeq(ParsedRows7am, LAMBDA r : r["Timestamp"] = NaT)

\* the paths the run printed as saved
SavedPaths == { printed[i].path : i \in { j \in DOMAIN printed : printed[j].msg = "Saved file" } }

RECURSIVE RowsOfFiles(_)
RowsOfFiles(paths) ==
    IF paths = {} THEN <<>>
    ELSE LET p == CHOOSE q \in paths : TRUE
         IN  fs[p].rows \o RowsOfFiles(paths \ {p})

WithoutKey(rows, col) == [i \in DOMAIN rows |-> [c \in DOMAIN rows[i] \ {col} |-> rows[i][c]]]

\* C2: after split_csv_by_7am_days ran on a file with a Timestamp column, the day
\* files it saved hold every row whose Timestamp parsed exactly once: the rows of all
\* day files together are the valid input rows with their multiplicities, none lost
\* and none written twice.
C2_DayFilesCoverValidRows ==
    Ran7am =>
        /\ SameBag(RowsOfFiles(SavedPaths), ValidRows7am)
        /\ Len(RowsOfFiles(SavedPaths)) = Len(ValidRows7am)
        /\ Cardinality(SavedPaths)
              = Cardinality({ i \in DOMAIN printed : printed[i].msg = "Saved file" })

C2_Witness ==
    /\ Ran7am
    /\ Cardinality(SavedPaths) = 2
    /\ Len(ValidRows7am) = 3
    /\ \E i, j \in DOMAIN ValidRows7am : i # j /\ ValidRows7am[i] = ValidRows7am[j]

SkippedPrinted == \E i \in DOMAIN printed : printed[i].msg = "Skipped rows saved to"

\* C3: in split_csv_by_7am_days a row whose Timestamp cannot be parsed is in no day
\* file and is in skipped_rows.csv; skipped_rows.csv is written if and only if there
\* is such a row, holds every invalid row and no valid row, and the valid rows are
\* split all the same.
C3_InvalidRowsAreSkipped ==
    Ran7am =>
        /\ SkippedPrinted <=> InvalidRows7am # <<>>
        /\ SkippedPrinted =>
              /\ skipped_file \in DOMAIN fs
              /\ SameBag(WithoutKey(fs[skipped_file].rows, "ShiftedDate"), InvalidRows7am)
              /\ Len(fs[skipped_file].rows) = Len(InvalidRows7am)
        /\ \A i \in DOMAIN RowsOfFiles(SavedPaths) : RowsOfFiles(SavedPaths)[i]["Timestamp"] # NaT
        /\ Len(RowsOfFiles(SavedPaths)) = Len(ValidRows7am)
        /\ printed[Len(printed)].msg = "Processing complete"

C3_Witness ==
    /\ Ran7am
    /\ Len(InvalidRows7am) = 2
    /\ Len(ValidRows7am) = 1
    /\ Cardinality(SavedPaths) = 1
    /\ Len(fs[skipped_file].rows) = 2

(***************************************************************************)
(* Claims about split_csv_by_profile_and_date and split_csv_by_day.        *)
(***************************************************************************)
RanProfile ==
    /\ prog = "csv_splitter_v2.1" /\ pc = "another" /\ arg = "profile"
    /\ HasColumn(disk, "Date")

RanDay ==
    /\ prog = "csv_splitter_v2.1" /\ pc = "another" /\ arg = "day"
    /\ HasColumn(disk, "Date")

\* the calendar date the timestamp text of a row denotes
CalendarDate(row) == DateOf(row["Date"].t)

ProfileDateGroups == { <<disk.rows[i]["PROFILE"], CalendarDate(disk.rows[i])>> : i \in DOMAIN disk.rows }

RECURSIVE SumRecords(_)
SumRecords(lines) == IF lines = <<>> THEN 0 ELSE Head(lines).num_records + SumRecords(Tail(lines))

\* C5: split_csv_by_profile_and_date partitions by (PROFILE, calendar date): there is
\* one group for each PROFILE and calendar date of the input, holding the rows with
\* that PROFILE and date, and the record counts of generate_key_notes sum to the
\* number of input rows.
C5_GroupsAreProfileAndCalendarDate ==
    RanProfile =>
        LET lines == fs[key_notes_file].lines
        IN  /\ SumRecords(lines) = Len(disk.rows)
            /\ Len(lines) = Cardinality(ProfileDateGroups)
            /\ \A g \in ProfileDateGroups :
                  \E k \in DOMAIN lines :
                     /\ lines[k].profile = g[1]
                     /\ lines[k].num_records =
                           Cardinality({ i \in DOMAIN disk.rows :
                                           /\ disk.rows[i]["PROFILE"] = g[1]
                                           /\ CalendarDate(disk.rows[i]) = g[2] })

\* C6: every group file a day partitioner saved has exactly the columns of the input
\* file; the derived key column (ShiftedDate, day_group) is not among them.
C6_GroupFilesKeepInputColumns ==
    (Ran7am \/ RanDay) =>
        \A p \in SavedPaths :
            /\ Range(fs[p].columns) = Range(disk.columns)
            /\ \A i \in DOMAIN fs[p].rows : DOMAIN fs[p].rows[i] = Range(disk.columns)

\* the rows of the input as split_csv_by_profile_and_date writes them
FilteredRows21 ==
    [i \in DOMAIN disk.rows |->
        [c \in DOMAIN disk.rows[i] \ exclude_columns |-> disk.rows[i][c]]]

GroupFiles21 == { p \in DOMAIN fs : p[2] \in {by_profile, by_date} }

NonDecreasing(rows) ==
    \A i \in 1..(Len(rows) - 1) : Instant(rows[i]["Timestamp"]) <= Instant(rows[i + 1]["Timestamp"])

StrictlyAscending(rows) ==
    \A i \in 1..(Len(rows) - 1) : Instant(rows[i]["Timestamp"]) < Instant(rows[i + 1]["Timestamp"])

\* the rows of the source that belong to the group of the file at p, in source order
SourceOrder7am(p) ==
    SelectSeq(ValidRows7am,
              LAMBDA r : ExpectedKey(r["Timestamp"]) = ExpectedKey(fs[p].rows[1]["Timestamp"]))

SourceOrder21(p) ==
    SelectSeq(FilteredRows21,
              LAMBDA r : /\ r["PROFILE"] = fs[p].rows[1]["PROFILE"]
                         /\ Words(r["Date"])[1] = Words(fs[p].rows[1]["Date"])[1])

\* C7 as stated: within every emitted group the records are in the relative order of
\* the source file, for any input, in split_csv_by_7am_days and in
\* split_csv_by_profile_and_date.
C7_Original ==
    /\ Ran7am => \A p \in SavedPaths : fs[p].rows = SourceOrder7am(p)
    /\ RanProfile => \A p \in GroupFiles21 : fs[p].rows = SourceOrder21(p)

\* C7 amended: split_csv_by_profile_and_date keeps every group in the order the rows
\* were read, for any input; split_csv_by_7am_days emits every group in ascending
\* Timestamp order, which is the source order when the valid rows of the source are in
\* strictly ascending Timestamp order.
C7_GroupOrder ==
    /\ Ran7am =>
          \A p \in SavedPaths :
             /\ NonDecreasing(fs[p].rows)
             /\ SameBag(fs[p].rows, SourceOrder7am(p))
             /\ StrictlyAscending(ValidRows7am) => fs[p].rows = SourceOrder7am(p)
    /\ RanProfile => \A p \in GroupFiles21 : fs[p].rows = SourceOrder21(p)

C7_Witness ==
    /\ Ran7am
    /\ ~NonDecreasing(ValidRows7am)
    /\ \E p \in SavedPaths : Len(fs[p].rows) = 3 /\ fs[p].rows # SourceOrder7am(p)

\* C8: in one run, two distinct groups are never written to the same path: there are
\* as many group files as groups (PROFILE and date text in
\* split_csv_by_profile_and_date, shifted date in split_csv_by_7am_days).
C8_OnePathPerGroup ==
    /\ Ran7am =>
          Cardinality(SavedPaths)
             = Cardinality({ ExpectedKey(ValidRows7am[i]["Timestamp"]) : i \in DOMAIN ValidRows7am })
    /\ RanProfile =>
          Cardinality({ p \in DOMAIN fs : p[2] = by_profile })
             = Cardinality({ <<disk.rows[i]["PROFILE"], Words(disk.rows[i]["Date"])[1]>> :
                               i \in DOMAIN disk.rows })

\* C10: when the header has no timestamp column the load fails with a format error:
\* the error is reported, nothing is written for the file and the loop goes on, in
\* split_csv_by_7am_days ('Timestamp') and in load_data ('Date').
C10_MissingTimestampColumnIsAnError ==
    /\ (prog = "csv_splitter_v3.0" /\ ~HasColumn(disk, "Timestamp")) =>
          /\ pc \in {"prompt", "another", "done"}
          /\ pc = "another" => printed[1].msg = "Error reading or parsing the file"
          /\ fs = <<>>
    /\ (prog = "main_V1.0" /\ ~HasColumn(disk, "Date")) =>
          /\ pc \in {"prompt", "done"}
          /\ fs = <<>>

(***************************************************************************)
(* The loaders of the analysis scripts: data_processing.load_data and the  *)
(* load_data of csv_analytics v0.3, v1.0 and v1.1, and the Timestamp       *)
(* conversion of csv_splitter_v3.0, each called on one file.               *)
(***************************************************************************)
\* 'DD/MM/YY HH:MM' of the instant t
Dmy2(t) == [fmt |-> "dmy2", t |-> t]

\* one cell under pd.to_datetime(..., format=...): the instant, or NaT when the
\* text does not match the format ('%d/%m/%Y %H:%M' is "dmy", '%d/%m/%y %H:%M' is "dmy2")
strptime(text, format) == IF text.fmt = format THEN text.t ELSE NaT

\* df.set_index('Date', inplace=True)
set_index(df, col) ==
    [index   |-> [i \in DOMAIN df.rows |-> df.rows[i][col]],
     dated   |-> TRUE,
     columns |-> SelectSeq(df.columns, LAMBDA c : c # col),
     rows    |-> df.rows]

\* csv_analytics_v0.3.load_data: format '%d/%m/%Y %H:%M', errors='coerce'
load_data_v03(file) ==
    LET df == read_csv(file)
    IN  IF HasColumn(df, "Date")
        THEN [raised |-> "",
              df     |-> set_index(Assign(df, "Date", "Date",
                                          [text \in Column(df, "Date") |-> strptime(text, "dmy")]),
                                   "Date")]
        ELSE [raised |-> "",
              df     |-> [index   |-> [i \in DOMAIN df.rows |-> i - 1],
                          dated   |-> FALSE,
                          columns |-> df.columns,
                          rows    |-> df.rows]]

\* csv_analytics_v1.0.load_data (the second definition, which is the one in
\* force): the same conversion, with no test that the column is there
load_data_v10(file) ==
    LET df == read_csv(file)
    IN  IF HasColumn(df, "Date")
        THEN [raised |-> "",
              df     |-> set_index(Assign(df, "Date", "Date",
                                          [text \in Column(df, "Date") |-> strptime(text, "dmy")]),
                                   "Date")]
        ELSE [raised |-> "KeyError", df |-> None]

\* csv_analytics_v1.1.load_data: format '%d/%m/%y %H:%M' and no errors=:
\* a cell that does not match the format raises ValueError
load_data_v11(file) ==
    LET df == read_csv(file)
    IN  IF HasColumn(df, "Date")
        THEN IF \E text \in Column(df, "Date") : strptime(text, "dmy2") = NaT
             THEN [raised |-> "ValueError", df |-> None]
             ELSE [raised |-> "",
                   df     |-> set_index(Assign(df, "Date", "Date",
                                               [text \in Column(df, "Date") |-> strptime(text, "dmy2")]),
                                        "Date")]
        ELSE [raised |-> "",
              df     |-> [index   |-> [i \in DOMAIN df.rows |-> i - 1],
                          dated   |-> FALSE,
                          columns |-> df.columns,
                          rows    |-> df.rows]]

\* the format each loader reads
LoaderFormat ==
    [data_processing |-> "iso", v03 |-> "dmy", v10 |-> "dmy", v11 |-> "dmy2", splitter_v30 |-> "iso"]

Loaders == DOMAIN LoaderFormat

\* the timestamp column each of them looks for
LoaderColumn(loader) == IF loader = "splitter_v30" THEN "Timestamp" ELSE "Date"

\* the timestamp texts of the files tried: the loader's own format, text that
\* is no timestamp, and for the loaders with a fixed format the other formats
LoaderTexts(loader) ==
    LET t1 == At(D0101, 6, 30)
        t2 == At(D0102, 7, 0)
        all == { Iso(t1), Iso(t2), Dmy(t1), Dmy(t2), Dmy2(t1), Dmy2(t2), BadText }
    IN  IF LoaderFormat[loader] = "iso"
        THEN { text \in all : text.fmt \in {"iso", "bad"} }
        ELSE all

LoaderFiles(loader) ==
    { [columns |-> <<LoaderColumn(loader), "Value">>, rows |-> rows] :
        rows \in SeqsUpTo({ (LoaderColumn(loader) :> text) @@ ("Value" :> 10) :
                              text \in LoaderTexts(loader) }, MaxRows) }

InitLoad ==
    /\ prog = "load_data"
    /\ pc = "call"
    /\ arg \in Loaders
    /\ disk \in LoaderFiles(arg)
    /\ ret = None
    /\ fs = <<>>
    /\ printed = <<>>

CallLoadDataProcessing ==
    /\ prog = "load_data" /\ pc = "call" /\ arg = "data_processing"
    /\ ret' = [raised |-> "", df |-> load_data(disk)]
    /\ pc' = "returned"
    /\ UNCHANGED <<prog, arg, disk, fs, printed>>

CallLoadV03 ==
    /\ prog = "load_data" /\ pc = "call" /\ arg = "v03"
    /\ ret' = load_data_v03(disk)
    /\ pc' = "returned"
    /\ UNCHANGED <<prog, arg, disk, fs, printed>>

CallLoadV10 ==
    /\ prog = "load_data" /\ pc = "call" /\ arg = "v10"
    /\ ret' = load_data_v10(disk)
    /\ pc' = "returned"
    /\ UNCHANGED <<prog, arg, disk, fs, printed>>

CallLoadV11 ==
    /\ prog = "load_data" /\ pc = "call" /\ arg = "v11"
    /\ ret' = load_data_v11(disk)
    /\ pc' = "returned"
    /\ UNCHANGED <<prog, arg, disk, fs, printed>>

\* csv_splitter_v3.0: the conversion at the head of split_csv_by_7am_days
CallConvert7am ==
    /\ prog = "load_data" /\ pc = "call" /\ arg = "splitter_v30"
    /\ LET loaded == Load7am(disk)
       IN  ret' = IF loaded.error # ""
                  THEN [raised |-> "ValueError", df |-> None]
                  ELSE [raised |-> "", df |-> set_index(loaded.df, "Timestamp")]
    /\ pc' = "returned"
    /\ UNCHANGED <<prog, arg, disk, fs, printed>>

NextLoad == CallLoadDataProcessing \/ CallLoadV03 \/ CallLoadV10 \/ CallLoadV11 \/ CallConvert7am

SpecLoad == InitLoad /\ [][NextLoad]_vars

\* the timestamp texts of the file that was loaded
LoadedTexts == [i \in DOMAIN disk.rows |-> disk.rows[i][LoaderColumn(arg)]]

\* a file in which every timestamp is in the loader's own format or is no timestamp
\* at all, and some row is of the second kind
SomeRowsUnparseable ==
    /\ \A i \in DOMAIN LoadedTexts : LoadedTexts[i].fmt \in {LoaderFormat[arg], "bad"}
    /\ \E i \in DOMAIN LoadedTexts : LoadedTexts[i].fmt = "bad"

\* C11: loading a file in which some rows have a timestamp that is no timestamp
\* does not raise; each such row gets the invalid marker NaT and every other row
\* its own instant, in every loader.
C11_UnparseableRowsAreMarked ==
    (prog = "load_data" /\ pc = "returned" /\ SomeRowsUnparseable)
        => /\ ret.raised = ""
           /\ \A i \in DOMAIN LoadedTexts :
                ret.df.index[i] = IF LoadedTexts[i].fmt = "bad" THEN NaT ELSE LoadedTexts[i].t

\* C12: in every driver loop a failure while processing one file is caught and
\* reported and control returns to the loop: no driver is ever ended by an
\* exception, only by the user's quit.
C12_FailureReturnsToLoop == pc # "crashed"

\* the user has just entered a path that does not exist
MissingPathReported ==
    \E i \in DOMAIN printed :
        printed[i].msg \in { "Error: File does not exist. Please try again.",
                             "Error: File not found. Check the path and try again." }

\* C13: when the user enters a path that does not exist the driver reports it,
\* writes nothing, and asks for a path again.
C13_MissingPathIsNotFatal ==
    [][ MissingPathReported' => (pc' = "prompt" /\ fs' = fs) ]_vars

\* a menu choice of main_V1.0 has just been served on a file with a Date column
\* and its selection held no record
EmptySelectionV1 ==
    prog = "main_V1.0" /\ pc # "day_loop" /\ arg # None /\ ret.dated /\ arg.selected = 0

\* C14: in main_V1.0 a custom range or a partition that holds zero records is a
\* no-op and not an error: nothing is written, no exception ends the run, and
\* the prompt comes again (choice 3 with an empty range, choice 2 with no day
\* that has rows, choice 1 on a file with no data rows).
C14_EmptySelectionIsNoOp ==
    EmptySelectionV1 => (pc = "prompt" /\ ~arg.wrote)

(***************************************************************************)
(* data_processing.preprocess_data.  A frame here is held by column:       *)
(* [index, columns, dtype, data], data[c] the cells of column c in row     *)
(* order.  A cell is a number n/d in lowest terms, NaN, or a text.         *)
(***************************************************************************)
MaxSamples == 5

RECURSIVE GCD(_, _)
GCD(a, b) == IF b = 0 THEN a ELSE GCD(b, a % b)

Abs(x) == IF x < 0 THEN -x ELSE x

\* the float n/d
Number(n, d) ==
    LET g == GCD(Abs(n), Abs(d))
        sign == IF d < 0 THEN -1 ELSE 1
    IN  [kind |-> "num", n |-> sign * (n \div g), d |-> sign * (d \div g), s |-> ""]

NaN == [kind |-> "nan", n |-> 0, d |-> 1, s |-> ""]

Str(s) == [kind |-> "str", n |-> 0, d |-> 1, s |-> s]

Plus(x, y) == Number(x.n * y.d + y.n * x.d, x.d * y.d)

Minus(x, y) == Number(x.n * y.d - y.n * x.d, x.d * y.d)

Times(x, y) == Number(x.n * y.n, x.d * y.d)

Less(x, y) == x.n * y.d < y.n * x.d

RECURSIVE Sum(_)
Sum(xs) == IF xs = <<>> THEN Number(0, 1) ELSE Plus(xs[1], Sum(Tail(xs)))

\* pd.to_numeric(df[col]) of an object column: every text must read as a number,
\* or ValueError is raised
to_numeric(cells) ==
    IF \A i \in DOMAIN cells : cells[i].kind # "str" \/ cells[i].s \in {"7", "8"}
    THEN [raised |-> "",
          values |-> [i \in DOMAIN cells |->
                        IF cells[i].kind = "str"
                        THEN Number(IF cells[i].s = "7" THEN 7 ELSE 8, 1) ELSE cells[i]]]
    ELSE [raised |-> "ValueError", values |-> cells]

\* lines 14-18: df[col] = pd.to_numeric(df[col]) for each object column, on the
\* frame the caller passed
convert_objects(df) ==
    [df EXCEPT
        !.data  = [c \in DOMAIN df.data |->
                     IF df.dtype[c] = "object" THEN to_numeric(df.data[c]).values
                     ELSE df.data[c]],
        !.dtype = [c \in DOMAIN df.dtype |->
                     IF df.dtype[c] = "object" /\ to_numeric(df.data[c]).raised = ""
                     THEN "int64" ELSE df.dtype[c]]]

\* df.select_dtypes(include=[np.number]).columns
numeric_columns(df) == { c \in DOMAIN df.dtype : df.dtype[c] # "object" }

\* Series.interpolate() with its defaults (linear in the position, forward):
\* a gap between two valid values is filled on the line between them, a gap
\* after the last valid value takes that value, a gap before the first valid
\* value is left as it is
interpolate(cells) ==
    [k \in DOMAIN cells |->
        IF cells[k] # NaN THEN cells[k]
        ELSE LET before == { i \in DOMAIN cells : i < k /\ cells[i] # NaN }
                 after  == { j \in DOMAIN cells : j > k /\ cells[j] # NaN }
             IN  IF before = {} THEN NaN
                 ELSE LET i == CHOOSE i \in before : \A x \in before : x <= i
                      IN  IF after = {} THEN cells[i]
                          ELSE LET j == CHOOSE j \in after : \A x \in after : j <= x
                               IN  Plus(cells[i],
                                        Times(Minus(cells[j], cells[i]), Number(k - i, j - i)))]

\* the samples at the ends are dropped: only full windows are kept
rolling_mean_valid(cells) ==
    IF Len(cells) < 5 THEN <<>>
    ELSE [k \in 1..(Len(cells) - 4) |->
            Times(Sum(SubSeq(cells, k, k + 4)), Number(1, 5))]

\* Series.rolling(window=5, center=True, min_periods=1).mean(): the mean of the
\* valid values among the two before, the sample and the two after
rolling_mean(cells) ==
    [k \in DOMAIN cells |->
        LET window == SelectSeq(SubSeq(cells, IF k > 2 THEN k - 2 ELSE 1,
                                              IF k + 2 < Len(cells) THEN k + 2 ELSE Len(cells)),
                                LAMBDA x : x # NaN)
        IN  IF window = <<>> THEN NaN ELSE Times(Sum(window), Number(1, Len(window)))]

\* lines 20-23: the numeric columns interpolated, in a new frame
fill_gaps(df) ==
    [df EXCEPT !.data = [c \in DOMAIN df.data |->
                           IF c \in numeric_columns(df) THEN interpolate(df.data[c]) ELSE df.data[c]]]

\* lines 25-27: the numeric columns smoothed
smooth(df) ==
    [df EXCEPT
        !.data  = [c \in DOMAIN df.data |->
                     IF c \in numeric_columns(df) THEN rolling_mean(df.data[c]) ELSE df.data[c]],
        !.dtype = [c \in DOMAIN df.dtype |->
                     IF c \in numeric_columns(df) THEN "float64" ELSE df.dtype[c]]]

\* preprocess_data(df): the frame returned, the frame after the gap filling, and
\* the caller's frame as the call leaves it
preprocess_data(df) ==
    LET converted == convert_objects(df)
        filled    == fill_gaps(converted)
    IN  [df |-> smooth(filled), filled |-> filled, caller |-> converted]

\* the frames tried: a float column Value with gaps, and with it no other column
\* or an object column Code whose texts all read as numbers, or none does, or
\* all but the first do
ValueCells == { NaN, Number(0, 1), Number(10, 1) }

CodeCells(n) ==
    { [i \in 1..n |-> Str("7")], [i \in 1..n |-> Str("x")],
      [i \in 1..n |-> IF i = 1 THEN Str("x") ELSE Str("7")] }

SampleIndex(n) == [i \in 1..n |-> At(D0101, 6 + i, 0)]

Frames ==
    UNION { { [index   |-> SampleIndex(n),
               columns |-> <<"Value">>,
               dtype   |-> [c \in {"Value"} |-> "float64"],
               data    |-> [c \in {"Value"} |-> values]] : values \in [1..n -> ValueCells] }
            \cup
            { [index   |-> SampleIndex(n),
               columns |-> <<"Value", "Code">>,
               dtype   |-> [c \in {"Value", "Code"} |-> IF c = "Value" THEN "float64" ELSE "object"],
               data    |-> [c \in {"Value", "Code"} |-> IF c = "Value" THEN values ELSE code]] :
                 values \in [1..n -> ValueCells], code \in (IF n = 0 THEN {} ELSE CodeCells(n)) }
            : n \in 0..MaxSamples }

InitClean ==
    /\ prog = "preprocess_data"
    /\ pc = "call"
    /\ arg \in Frames
    /\ ret = None
    /\ disk = None
    /\ fs = <<>>
    /\ printed = <<>>

CallPreprocess ==
    /\ prog = "preprocess_data" /\ pc = "call"
    /\ ret' = preprocess_data(arg)
    /\ pc' = "returned"
    /\ UNCHANGED <<prog, arg, disk, fs, printed>>

NextClean == CallPreprocess

SpecClean == InitClean /\ [][NextClean]_vars

Cleaned == prog = "preprocess_data" /\ pc = "returned"

\* C15: preprocess_data returns a table with the same number of rows, the same
\* columns in the same order, the same timestamp index and the rows in the same
\* order as its input; the smoothing drops no sample, so every column is as long
\* after as before.
C15_PreprocessKeepsShape ==
    Cleaned =>
        /\ ret.df.index = arg.index
        /\ ret.df.columns = arg.columns
        /\ DOMAIN ret.df.data = DOMAIN arg.data
        /\ \A c \in DOMAIN arg.data :
              /\ Len(ret.df.data[c]) = Len(arg.index)
              /\ ret.df.dtype[c] = "object" => ret.df.data[c] = arg.data[c]

\* a full frame with a gap has been cleaned, and the smoothing changed its values
C15_Witness ==
    /\ Cleaned
    /\ Len(arg.index) = MaxSamples
    /\ arg.columns = <<"Value", "Code">>
    /\ \E i \in DOMAIN arg.index : arg.data["Value"][i] = NaN
    /\ \E i \in DOMAIN arg.index :
          ret.df.data["Value"][i] \notin {NaN, arg.data["Value"][i]}

\* the valid values of a column
Valid(cells) == { cells[i] : i \in { k \in DOMAIN cells : cells[k] # NaN } }

\* C16: after the gap filling every numeric column with at least one valid value
\* has no missing value, and every value lies within the range of the column's
\* valid values (interior gaps on the line between the neighbours, a trailing
\* gap the last valid value, a leading gap the first valid value).
C16_GapsAreFilledWithinRange ==
    Cleaned =>
        \A c \in numeric_columns(arg) :
            Valid(arg.data[c]) # {} =>
                \A i \in DOMAIN arg.index :
                    /\ ret.filled.data[c][i] # NaN
                    /\ \E lo \in Valid(arg.data[c]), hi \in Valid(arg.data[c]) :
                          /\ ~Less(ret.filled.data[c][i], lo)
                          /\ ~Less(hi, ret.filled.data[c][i])

\* C17: preprocess_data does not mutate its input: after the call the caller's
\* table has the columns, column types and values it had before.
C17_InputIsNotMutated ==
    Cleaned => ret.caller = arg

(***************************************************************************)
(* The outlier detectors: identify_outliers (csv_analytics_v0.1),          *)
(* detect_outliers (v0.3, v0.4, v1.0, v1.1) and                            *)
(* detect_outliers_isolation_forest (outlier_detection_V1.0), each called  *)
(* on one frame.  A z-score is never computed as a float here: |z| > 3 is  *)
(* decided on the squares, (x - mean)^2 > 9 * variance, and where the two  *)
(* sides are equal the rounding of the floats decides, so both results are *)
(* possible.                                                               *)
(***************************************************************************)
threshold == 3

MaxEqual == 10

\* the positions of a column that hold a value
NotNa(cells) == { i \in DOMAIN cells : cells[i] # NaN }

\* the mean over the positions P, and the variance with the given ddof
Mean(cells, P) ==
    Times(Sum([k \in 1..Cardinality(P) |->
                 cells[CHOOSE i \in P : Cardinality({ j \in P : j < i }) = k - 1]]),
          Number(1, Cardinality(P)))

Variance(cells, P, ddof) ==
    LET mean == Mean(cells, P)
    IN  Times(Sum([k \in 1..Cardinality(P) |->
                     LET x == cells[CHOOSE i \in P : Cardinality({ j \in P : j < i }) = k - 1]
                     IN  Times(Minus(x, mean), Minus(x, mean))]),
              Number(1, Cardinality(P) - ddof))

\* abs(z) > threshold over the positions P: the positions for which it is True
\* whatever the rounding ("surely") and those on the edge ("maybe"); with no
\* value, a single value under ddof=1, or zero variance every z is NaN
Exceeds(cells, P, ddof) ==
    IF Cardinality(P) - ddof <= 0 THEN [surely |-> {}, maybe |-> {}]
    ELSE LET mean == Mean(cells, P)
             limit == Times(Number(threshold * threshold, 1), Variance(cells, P, ddof))
             dev2(i) == Times(Minus(cells[i], mean), Minus(cells[i], mean))
         IN  IF limit = Number(0, 1) THEN [surely |-> {}, maybe |-> {}]
             ELSE [surely |-> { i \in P : Less(limit, dev2(i)) },
                   maybe  |-> { i \in P : dev2(i) = limit }]

\* the masks abs(z_scores) > threshold can be
Masks(exceeds) == { exceeds.surely \cup edge : edge \in SUBSET exceeds.maybe }

\* df[column][mask]: the (timestamp, value) pairs at the positions of the mask, in row order
Entries(df, column, mask) ==
    LET positions == SelectSeq([i \in DOMAIN df.index |-> i], LAMBDA i : i \in mask)
    IN  [k \in DOMAIN positions |->
            [timestamp |-> df.index[positions[k]], value |-> df.data[column][positions[k]]]]

\* df[mask]: the whole rows at the positions of the mask, in row order
RowEntries(df, mask) ==
    LET positions == SelectSeq([i \in DOMAIN df.index |-> i], LAMBDA i : i \in mask)
    IN  [k \in DOMAIN positions |->
            [row |-> positions[k] - 1, Date |-> df.index[positions[k]],
             cells |-> [c \in DOMAIN df.data |-> df.data[c][positions[k]]]]]

\* every way to choose one value of choices[c] for each c
Mappings(choices) == { f \in [DOMAIN choices -> UNION { choices[c] : c \in DOMAIN choices }] :
                         \A c \in DOMAIN choices : f[c] \in choices[c] }

\* csv_analytics_v0.4 / v1.1 detect_outliers (and v1.0, which takes df[mask][column]):
\* stats.zscore(df[column]) with a missing value in the column is NaN everywhere
detect_outliers(df) ==
    { [raised |-> "", outliers |-> outliers] :
        outliers \in Mappings([column \in numeric_columns(df) |->
            { Entries(df, column, mask) :
                mask \in IF NotNa(df.data[column]) # DOMAIN df.index THEN {{}}
                         ELSE Masks(Exceeds(df.data[column], DOMAIN df.index, 0)) }]) }

\* csv_analytics_v0.3 detect_outliers: the z-scores are those of df[column].dropna(),
\* an array shorter than the column when a value is missing, and indexing
\* df[column] with it raises IndexError
detect_outliers_v03(df) ==
    IF \E column \in numeric_columns(df) : NotNa(df.data[column]) # DOMAIN df.index
    THEN { [raised |-> "IndexError", outliers |-> <<>>] }
    ELSE detect_outliers(df)

\* the columns main of csv_analytics_v0.1 asks for
outlier_columns == <<"BILLET_TEMP", "BREAKTHOUGH_PRESSURE", "PROFILE_EXIT_TEMP", "RAM_SPEED">>

\* csv_analytics_v0.1 identify_outliers(df, columns): mean() and std() of pandas
\* skip the missing values and std is the sample deviation (ddof=1); the result
\* holds the whole rows, for the columns asked for
identify_outliers(df, columns) ==
    IF \E k \in DOMAIN columns : columns[k] \notin DOMAIN df.data
    THEN { [raised |-> "KeyError", outliers |-> <<>>] }
    ELSE { [raised |-> "", outliers |-> outliers] :
            outliers \in Mappings([column \in Range(columns) |->
                { RowEntries(df, mask) :
                    mask \in Masks(Exceeds(df.data[column], NotNa(df.data[column]), 1)) }]) }

\* outlier_detection_V1.0 detect_outliers_isolation_forest: fit_predict raises
\* ValueError on a frame without rows and, depending on the scikit-learn at hand,
\* on a missing value; which samples it labels -1 is left open
detect_outliers_isolation_forest(df) ==
    IF df.index = <<>> THEN { [raised |-> "ValueError", outliers |-> <<>>] }
    ELSE (IF \E column \in numeric_columns(df) : NotNa(df.data[column]) # DOMAIN df.index
          THEN { [raised |-> "ValueError", outliers |-> <<>>] } ELSE {})
         \cup
         { [raised |-> "", outliers |-> outliers] :
            outliers \in Mappings([column \in numeric_columns(df) |->
                { Entries(df, column, mask) : mask \in SUBSET DOMAIN df.index }]) }

\* the sequence cells with x put in at position pos
Insert(cells, pos, x) ==
    [i \in 1..(Len(cells) + 1) |->
        IF i < pos THEN cells[i] ELSE IF i = pos THEN x ELSE cells[i - 1]]

\* the channels tried for BILLET_TEMP: up to MaxEqual readings of 5, with or
\* without one reading of 100 somewhere, with or without one missing value somewhere
Readings ==
    LET equal == { [i \in 1..n |-> Number(5, 1)] : n \in 0..MaxEqual }
        far   == equal \cup UNION { { Insert(cells, pos, Number(100, 1)) : pos \in 1..(Len(cells) + 1) }
                                    : cells \in equal }
    IN  far \cup UNION { { Insert(cells, pos, NaN) : pos \in 1..(Len(cells) + 1) } : cells \in far }

Detectors == {"v01", "v03", "v04", "v10", "v11", "isolation_forest"}

\* the numeric channels of the frames a detector is tried on, besides
\* BILLET_TEMP: readings that are all 1
OtherChannels(detector) ==
    IF detector = "v01"
    THEN {"BREAKTHOUGH_PRESSURE", "PROFILE_EXIT_TEMP", "RAM_SPEED", "EXT_TIME"}
    ELSE {"EXT_TIME"}

\* the frame with these readings, the other channels, and the text column PROFILE
ReadingsFrame(detector, readings) ==
    LET channels == {"BILLET_TEMP"} \cup OtherChannels(detector)
    IN  [index   |-> [i \in DOMAIN readings |-> At(D0101, 6 + i, 0)],
         columns |-> IF detector = "v01"
                     THEN outlier_columns \o <<"EXT_TIME", "PROFILE">>
                     ELSE <<"BILLET_TEMP", "EXT_TIME", "PROFILE">>,
         dtype   |-> [c \in channels \cup {"PROFILE"} |-> IF c = "PROFILE" THEN "object" ELSE "float64"],
         data    |-> [c \in channels \cup {"PROFILE"} |->
                        IF c = "BILLET_TEMP" THEN readings
                        ELSE [i \in DOMAIN readings |-> IF c = "PROFILE" THEN Str("A") ELSE Number(1, 1)]]]

InitOutlier ==
    /\ prog = "detect_outliers"
    /\ pc = "call"
    /\ arg \in Detectors
    /\ \E readings \in Readings :
          /\ arg = "isolation_forest" => Len(readings) <= MaxRows
          /\ disk = ReadingsFrame(arg, readings)
    /\ ret = None
    /\ fs = <<>>
    /\ printed = <<>>

CallIdentifyOutliers ==
    /\ prog = "detect_outliers" /\ pc = "call" /\ arg = "v01"
    /\ ret' \in identify_outliers(disk, outlier_columns)
    /\ pc' = "returned"
    /\ UNCHANGED <<prog, arg, disk, fs, printed>>

CallDetectOutliersV03 ==
    /\ prog = "detect_outliers" /\ pc = "call" /\ arg = "v03"
    /\ ret' \in detect_outliers_v03(disk)
    /\ pc' = "returned"
    /\ UNCHANGED <<prog, arg, disk, fs, printed>>

CallDetectOutliers ==
    /\ prog = "detect_outliers" /\ pc = "call" /\ arg \in {"v04", "v10", "v11"}
    /\ ret' \in detect_outliers(disk)
    /\ pc' = "returned"
    /\ UNCHANGED <<prog, arg, disk, fs, printed>>

CallIsolationForest ==
    /\ prog = "detect_outliers" /\ pc = "call" /\ arg = "isolation_forest"
    /\ ret' \in detect_outliers_isolation_forest(disk)
    /\ pc' = "returned"
    /\ UNCHANGED <<prog, arg, disk, fs, printed>>

NextOutlier == CallIdentifyOutliers \/ CallDetectOutliersV03 \/ CallDetectOutliers \/ CallIsolationForest

SpecOutlier == InitOutlier /\ [][NextOutlier]_vars

Detected == prog = "detect_outliers" /\ pc = "returned"

\* the positions that entries were taken from: the rows of the frame they name
FlaggedRows(entries) ==
    { i \in DOMAIN disk.index : \E k \in DOMAIN entries : entries[k].timestamp = disk.index[i] }

\* x is flagged by the rule |x - mean| / std > 3 over the valid values of the
\* channel (population deviation, as stats.zscore): decided on the squares
MustFlag(cells, i) ==
    LET P == NotNa(cells)
    IN  /\ i \in P
        /\ Less(Times(Number(9, 1), Variance(cells, P, 0)),
                Times(Minus(cells[i], Mean(cells, P)), Minus(cells[i], Mean(cells, P))))

MustNotFlag(cells, i) ==
    LET P == NotNa(cells)
    IN  \/ i \notin P
        \/ Less(Times(Minus(cells[i], Mean(cells, P)), Minus(cells[i], Mean(cells, P))),
                Times(Number(9, 1), Variance(cells, P, 0)))
        \/ Variance(cells, P, 0) = Number(0, 1)

\* C18: for every numeric channel detect_outliers (v0.3 to v1.1) flags exactly the
\* valid values x with |x - mean| / std > 3, mean and std taken over the valid
\* values of the channel, whether or not some other value of the channel is
\* missing; of 10 equal values and one far from them exactly that one is flagged.
C18_ZScoreFlagsOverValidValues ==
    (Detected /\ arg \in {"v03", "v04", "v10", "v11"}) =>
        /\ ret.raised = ""
        /\ LET cells == disk.data["BILLET_TEMP"]
               rows  == FlaggedRows(ret.outliers["BILLET_TEMP"])
           IN  \A i \in DOMAIN cells :
                  /\ MustFlag(cells, i) => i \in rows
                  /\ MustNotFlag(cells, i) => i \notin rows

\* the valid values of the channel are all equal
ZeroVariance(cells) == \A i \in NotNa(cells), j \in NotNa(cells) : cells[i] = cells[j]

\* C19: on a channel whose valid values are all equal every z-score detector
\* (identify_outliers of v0.1, detect_outliers of v0.3 to v1.1) returns an empty
\* flagged set for that channel; it does not fail and it does not flag every value.
C19_ZeroVarianceFlagsNothing ==
    (Detected /\ arg # "isolation_forest" /\ ZeroVariance(disk.data["BILLET_TEMP"])) =>
        /\ ret.raised = ""
        /\ ret.outliers["BILLET_TEMP"] = <<>>

\* C20: every detector returns a mapping whose keys are exactly the numeric
\* channels of the dataset; a channel without flagged value maps to the empty
\* sequence; every entry is a (timestamp, value) pair of a row of the dataset,
\* and the entries of a channel are in ascending order of timestamp.
C20_OutlierMappingShape ==
    Detected =>
        /\ ret.raised = ""
        /\ DOMAIN ret.outliers = numeric_columns(disk)
        /\ \A c \in DOMAIN ret.outliers :
              LET entries == ret.outliers[c]
              IN  /\ \A k \in DOMAIN entries :
                        /\ DOMAIN entries[k] = {"timestamp", "value"}
                        /\ \E i \in DOMAIN disk.index :
                              /\ entries[k].timestamp = disk.index[i]
                              /\ entries[k].value = disk.data[c][i]
                  /\ \A k \in DOMAIN entries, l \in DOMAIN entries :
                        k < l => Lt(entries[k].timestamp, entries[l].timestamp)

(***************************************************************************)
(* statistical_analysis: generate_statistical_summary and                  *)
(* calculate_correlations, and report_generation_v1.0's                    *)
(* create_table_from_dataframe that lays their results out.  The square    *)
(* root of n/d, with its sign, is kept as a cell of kind "root".           *)
(***************************************************************************)
\* sqrt(x), or -sqrt(x); the roots of 0 and 1 are the numbers themselves
Root(x, negative) ==
    IF x = Number(0, 1) THEN x
    ELSE IF x = Number(1, 1) THEN Number(IF negative THEN -1 ELSE 1, 1)
    ELSE [kind |-> "root", n |-> x.n, d |-> x.d, s |-> IF negative THEN "-" ELSE ""]

\* the k-th smallest of the values at the positions P
Ranked(cells, P, k) ==
    CHOOSE x \in { cells[i] : i \in P } :
        /\ Cardinality({ j \in P : Less(cells[j], x) }) < k
        /\ k <= Cardinality({ j \in P : ~Less(x, cells[j]) })

\* Series.quantile(q) for q = qn/qd, linear between the two nearest ranks
Quantile(cells, P, qn, qd) ==
    LET pos  == (Cardinality(P) - 1) * qn
        lo   == pos \div qd
        frac == Number(pos % qd, qd)
    IN  IF pos % qd = 0 THEN Ranked(cells, P, lo + 1)
        ELSE Plus(Ranked(cells, P, lo + 1),
                  Times(frac, Minus(Ranked(cells, P, lo + 2), Ranked(cells, P, lo + 1))))

statistics == <<"count", "mean", "std", "min", "25%", "50%", "75%", "max">>

\* Series.describe() of a numeric column: count is the number of valid values,
\* the others are NaN when there is none, std (ddof=1) also when there is one
describe(cells) ==
    LET P == NotNa(cells)
        n == Cardinality(P)
    IN  [stat \in Range(statistics) |->
            IF stat = "count" THEN Number(n, 1)
            ELSE IF n = 0 THEN NaN
            ELSE IF stat = "mean" THEN Mean(cells, P)
            ELSE IF stat = "std" THEN (IF n = 1 THEN NaN ELSE Root(Variance(cells, P, 1), FALSE))
            ELSE IF stat = "min" THEN Ranked(cells, P, 1)
            ELSE IF stat = "25%" THEN Quantile(cells, P, 1, 4)
            ELSE IF stat = "50%" THEN Quantile(cells, P, 1, 2)
            ELSE IF stat = "75%" THEN Quantile(cells, P, 3, 4)
            ELSE Ranked(cells, P, n)]

\* a - b on floats: NaN when either is
FloatMinus(max, min) == IF max = NaN \/ min = NaN THEN NaN ELSE Minus(max, min)

\* generate_statistical_summary(df): DataFrame.describe() raises ValueError on a
\* frame without columns; the row 'range' is added below the rows of describe()
generate_statistical_summary(df) ==
    LET numeric_cols == SelectSeq(df.columns, LAMBDA c : c \in numeric_columns(df))
    IN  IF numeric_cols = <<>>
        THEN [raised |-> "ValueError", index |-> <<>>, columns |-> <<>>, cell |-> <<>>]
        ELSE [raised  |-> "",
              index   |-> statistics \o <<"range">>,
              columns |-> numeric_cols,
              cell    |-> [stat \in Range(statistics) \cup {"range"}, c \in Range(numeric_cols) |->
                             LET summary == describe(df.data[c])
                             IN  IF stat = "range" THEN FloatMinus(summary["max"], summary["min"])
                                 ELSE summary[stat]]]

\* the sum over the positions P of (a[i] - ma) * (b[i] - mb)
SumProducts(a, ma, b, mb, P) ==
    Sum([k \in 1..Cardinality(P) |->
           LET i == CHOOSE i \in P : Cardinality({ j \in P : j < i }) = k - 1
           IN  Times(Minus(a[i], ma), Minus(b[i], mb))])

\* Pearson's r of two columns over the rows where both hold a value
\* (min_periods=1): NaN without such a row and when either has no spread there
pearson(a, b) ==
    LET P == NotNa(a) \cap NotNa(b)
    IN  IF P = {} THEN NaN
        ELSE LET ma  == Mean(a, P)
                 mb  == Mean(b, P)
                 ssa == SumProducts(a, ma, a, ma, P)
                 ssb == SumProducts(b, mb, b, mb, P)
                 cov == SumProducts(a, ma, b, mb, P)
             IN  IF Times(ssa, ssb) = Number(0, 1) THEN NaN
                 ELSE Root(Times(Times(cov, cov), Number(Times(ssa, ssb).d, Times(ssa, ssb).n)),
                           cov.n < 0)

\* calculate_correlations(df): df[numeric_cols].corr()
calculate_correlations(df) ==
    LET numeric_cols == SelectSeq(df.columns, LAMBDA c : c \in numeric_columns(df))
    IN  [raised  |-> "",
         index   |-> numeric_cols,
         columns |-> numeric_cols,
         cell    |-> [a \in Range(numeric_cols), b \in Range(numeric_cols) |->
                        pearson(df.data[a], df.data[b])]]

\* create_table_from_dataframe(df, title): the header row and df.values.tolist(),
\* every cell as it is in the frame
create_table_from_dataframe(df) ==
    <<[j \in DOMAIN df.columns |-> Str(df.columns[j])]>>
    \o [i \in DOMAIN df.index |-> [j \in DOMAIN df.columns |-> df.cell[df.index[i], df.columns[j]]]]

\* the frames tried: the channels BILLET_TEMP and EXT_TIME with values 1, 2 or
\* missing and the text column PROFILE, or PROFILE alone
StatCells == { NaN, Number(1, 1), Number(2, 1) }

StatFrames ==
    UNION { { [index   |-> SampleIndex(n),
               columns |-> <<"BILLET_TEMP", "EXT_TIME", "PROFILE">>,
               dtype   |-> [c \in {"BILLET_TEMP", "EXT_TIME", "PROFILE"} |->
                              IF c = "PROFILE" THEN "object" ELSE "float64"],
               data    |-> [c \in {"BILLET_TEMP", "EXT_TIME", "PROFILE"} |->
                              IF c = "BILLET_TEMP" THEN a
                              ELSE IF c = "EXT_TIME" THEN b ELSE [i \in 1..n |-> Str("A")]]] :
                 a \in [1..n -> StatCells], b \in [1..n -> StatCells] }
            \cup
            { [index   |-> SampleIndex(n),
               columns |-> <<"PROFILE">>,
               dtype   |-> [c \in {"PROFILE"} |-> "object"],
               data    |-> [c \in {"PROFILE"} |-> [i \in 1..n |-> Str("A")]]] }
            : n \in 0..MaxRows }

InitStats ==
    /\ prog = "statistical_analysis"
    /\ pc = "call"
    /\ arg = None
    /\ ret = None
    /\ disk \in StatFrames
    /\ fs = <<>>
    /\ printed = <<>>

CallSummary ==
    /\ prog = "statistical_analysis" /\ pc = "call"
    /\ ret' = generate_statistical_summary(disk)
    /\ pc' = "stats"
    /\ UNCHANGED <<prog, arg, disk, fs, printed>>

CallCorrelations ==
    /\ prog = "statistical_analysis" /\ pc = "call"
    /\ ret' = calculate_correlations(disk)
    /\ pc' = "correlations"
    /\ UNCHANGED <<prog, arg, disk, fs, printed>>

\* generate_pdf_report lays the summary or the matrix out as a table
CallCreateTable ==
    /\ prog = "statistical_analysis" /\ pc \in {"stats", "correlations"} /\ ret.raised = ""
    /\ ret' = create_table_from_dataframe(ret)
    /\ pc' = IF pc = "stats" THEN "stats_table" ELSE "correlations_table"
    /\ UNCHANGED <<prog, arg, disk, fs, printed>>

NextStats == CallSummary \/ CallCorrelations \/ CallCreateTable

SpecStats == InitStats /\ [][NextStats]_vars

Summarised == prog = "statistical_analysis" /\ pc \in {"stats", "stats_table"}

\* the numeric channels of the frame without a single valid value
EmptyChannels == { c \in numeric_columns(disk) : NotNa(disk.data[c]) = {} }

\* C21: for a numeric channel with zero valid values generate_statistical_summary
\* does not raise and reports no statistic of that channel as NaN, and no NaN of
\* that channel reaches the table the report assembler makes of the summary
C21_NoValuesIsNotAvailable ==
    Summarised =>
        /\ pc = "stats" =>
              \A c \in EmptyChannels :
                 /\ ret.raised = ""
                 /\ \A stat \in Range(ret.index) : ret.cell[stat, c] # NaN
        /\ pc = "stats_table" =>
              \A i \in 2..Len(ret), j \in DOMAIN ret[1] :
                 ret[1][j].s \in EmptyChannels => ret[i][j] # NaN

Correlated == prog = "statistical_analysis" /\ pc = "correlations"

\* -1 <= x <= 1
InUnitRange(x) == x.kind \in {"num", "root"} /\ Abs(x.n) <= x.d

\* C22: for a frame with at least 2 numeric channels and at least 2 rows the
\* matrix of calculate_correlations is symmetric, has 1.0 on its diagonal and
\* every entry in [-1, 1], also when a channel is constant
C22_CorrelationMatrixShape ==
    (Correlated /\ Len(ret.columns) >= 2 /\ Len(disk.index) >= 2) =>
        \A a \in Range(ret.columns), b \in Range(ret.columns) :
           /\ ret.cell[a, b] = ret.cell[b, a]
           /\ ret.cell[a, a] = Number(1, 1)
           /\ InUnitRange(ret.cell[a, b])

(***************************************************************************)
(* The ISO-week policy.  No splitter has one: csv_splitter_v2.1's main     *)
(* takes 'day' and 'profile' and answers any other method, 'week' among    *)
(* them, with "Invalid option".                                            *)
(***************************************************************************)
\* date.isocalendar(): the ISO year and week of the Thursday of the date's
\* Monday-to-Sunday week
isocalendar(date) ==
    LET ordinal  == ToOrdinal(date)
        weekday  == (ordinal + 6) % 7
        thursday == ordinal - weekday + 3
        year     == FromOrdinal(thursday).y
    IN  [year |-> year,
         week |-> (thursday - ToOrdinal([y |-> year, m |-> 1, d |-> 1])) \div 7 + 1]

iso_week_key(t) == isocalendar(DateOf(t))

\* a method other than 'day' and 'profile' has just been asked for
WeekAsked ==
    /\ prog = "csv_splitter_v2.1" /\ pc = "prompt"
    /\ printed = <<[msg |-> "Invalid option. Please enter 'day' or 'profile'."]>>
    /\ HasColumn(disk, "Date")

\* the timestamps of the input's valid records
ValidTimes21 ==
    { parse_dates_cell(disk.rows[i]["Date"]) : i \in DOMAIN disk.rows } \ {NaT}

\* C24: the partitioner offers an ISO-week policy: asked to split by week it
\* writes, for every valid record, a group holding exactly the valid records of
\* that record's (ISO year, ISO week), whatever the 7AM shift would do.
C24_IsoWeekPolicyOffered ==
    WeekAsked =>
        \A t \in ValidTimes21 :
           \E path \in DOMAIN fs :
              \A u \in ValidTimes21 :
                 (\E k \in DOMAIN fs[path].rows :
                     "Date" \in DOMAIN fs[path].rows[k] /\ fs[path].rows[k]["Date"] = u)
                 <=> iso_week_key(u) = iso_week_key(t)

(***************************************************************************)
(* Claims about the day windows of main_V1.0's choice 2.                   *)
(***************************************************************************)
\* choice 2 has been served on a file with a Date column: its loop is over
ServedChoice2 ==
    /\ prog = "main_V1.0" /\ pc \in {"prompt", "crashed"}
    /\ arg # None /\ arg.choice = "2" /\ ret.dated

\* the analysed windows [w, w + 1 day) that hold the timestamp t
WindowsOf(t) == { w \in arg.windows : Le(w, t) /\ Lt(t, PlusDays(w, 1)) }

\* C25: the windows analysed by choice 2 are a total, disjoint cover of the
\* loaded records: every record with a valid timestamp lies in exactly one
\* analysed window, records before 07:00 on the first date and a last record
\* on a window boundary included.
C25_DayWindowsCoverRecords ==
    ServedChoice2 =>
        \A i \in DOMAIN ret.index :
           ret.index[i] # NaT => Cardinality(WindowsOf(ret.index[i])) = 1

\* the turns of the loop taken so far
Iterations == arg.skipped + Cardinality(arg.windows)

\* 07:00 on the date of the first record
FirstSeven == At(DateOf(ret.index[1]), 7, 0)

\* ceil((last - first 07:00) / 1 day), and 0 when the last record is not later
MaxIterations ==
    LET minutes == Instant(arg.end_time) - Instant(FirstSeven)
    IN  IF minutes <= 0 THEN 0 ELSE (minutes + 1439) \div 1440

InDayLoop == prog = "main_V1.0" /\ pc = "day_loop"

\* the loop of choice 2 is running or is over
DayLoopEntered ==
    /\ prog = "main_V1.0" /\ arg # None /\ arg.choice = "2" /\ ret.dated /\ ret.rows # <<>>

\* C26: the day-window loop of choice 2 terminates: current_day goes up by
\* exactly one day per turn, the loop is left after at most
\* ceil((last - first 07:00) / 1 day) turns, and without a turn when the first or
\* the last index value is no timestamp.
C26_DayLoopTerminates ==
    /\ [](DayLoopEntered =>
            IF ret.index[1] = NaT \/ ret.index[Len(ret.index)] = NaT THEN Iterations = 0
            ELSE /\ Iterations <= MaxIterations
                 /\ Instant(arg.current_day) = Instant(FirstSeven) + 1440 * arg.skipped)
    /\ (InDayLoop ~> ~InDayLoop)

\* the loop has been left at its condition after a turn
C26_Witness ==
    ServedChoice2 /\ pc = "prompt" /\ arg.skipped >= 1

\* the program with the scheduling of the interpreter: a loop that can take a
\* turn takes it
SpecLive == Spec /\ WF_vars(DayStepV1)

(***************************************************************************)
(* csv_splitter.split_csv_by_profile, one row of the input at a time.  A   *)
(* path is the sequence of its pieces after os.path.normpath; fs maps the  *)
(* path of a file to what has been written to it, arg holds the loop's     *)
(* position, the handles in profile_files and the directories made.        *)
(***************************************************************************)
exclude_columns_profile ==
    {"DATE_ID", "DECELERATION_PRESSURE", "DEAD_CYCLE_TIME", "PILOT_PRESSURE",
     "CONTAINER_SEAL_PRESSURE", "MAIN_PUMP_2", "MAIN_PUMP_3"}

\* the pieces of a text between its slashes
RECURSIVE SplitSlash(_)
SplitSlash(text) ==
    IF "/" \notin Range(text) THEN <<text>>
    ELSE LET i == CHOOSE i \in DOMAIN text : text[i] = "/" /\ \A j \in 1..(i - 1) : text[j] # "/"
         IN  <<SubSeq(text, 1, i - 1)>> \o SplitSlash(SubSeq(text, i + 1, Len(text)))

\* os.path.join(path, text): a text that starts with a slash replaces the path
os_path_join(path, text) ==
    IF text # <<>> /\ text[1] = "/"
    THEN [absolute |-> TRUE, pieces |-> SplitSlash(text)]
    ELSE [absolute |-> path.absolute, pieces |-> path.pieces \o SplitSlash(text)]

\* os.path.normpath: '' and '.' are dropped, '..' takes the piece before it away
\* and stays when there is none (at the root it is dropped)
RECURSIVE Normalised(_, _, _)
Normalised(pieces, done, absolute) ==
    IF pieces = <<>> THEN done
    ELSE LET piece == Head(pieces)
             up    == <<".", ".">>
         IN  IF piece \in {<<>>, <<".">>} THEN Normalised(Tail(pieces), done, absolute)
             ELSE IF piece # up THEN Normalised(Tail(pieces), Append(done, piece), absolute)
             ELSE IF done # <<>> /\ done[Len(done)] # up
                  THEN Normalised(Tail(pieces), SubSeq(done, 1, Len(done) - 1), absolute)
             ELSE IF absolute THEN Normalised(Tail(pieces), done, absolute)
             ELSE Normalised(Tail(pieces), Append(done, up), absolute)

normpath(path) == [absolute |-> path.absolute, pieces |-> Normalised(path.pieces, <<>>, path.absolute)]

\* output_base_dir, a directory of the working directory
BaseDir == [absolute |-> FALSE, pieces |-> <<output_base_dir>>]

\* the directory a path lies in
Dirname(path) == [path EXCEPT !.pieces = SubSeq(path.pieces, 1, Len(path.pieces) - 1)]

\* os.makedirs(path, exist_ok=True): the directory and those above it
makedirs(dirs, path) ==
    dirs \cup { [path EXCEPT !.pieces = SubSeq(path.pieces, 1, k)] : k \in 0..Len(path.pieces) }

\* the directories there are: those made, the working directory, the root and
\* what lies above the working directory
IsDir(dirs, path) ==
    path \in dirs \/ \A k \in DOMAIN path.pieces : path.pieces[k] = <<".", ".">>

\* one turn of `for row in reader`: the outcome [raised, files, state].  Reading
\* a row that is not UTF-8 raises UnicodeDecodeError, a row without PROFILE
\* KeyError, open() of a file in a directory that is not there FileNotFoundError
profile_row(file, files, state) ==
    LET fieldnames == SelectSeq(file.columns, LAMBDA c : c \notin exclude_columns_profile)
        row        == file.rows[state.next]
    IN  IF file.undecodable = state.next
        THEN [raised |-> "UnicodeDecodeError", files |-> files, state |-> state]
        ELSE IF "PROFILE" \notin DOMAIN row
        THEN [raised |-> "KeyError", files |-> files, state |-> state]
        ELSE LET profile     == row["PROFILE"]
                 known       == profile \in DOMAIN state.profile_files
                 profile_dir == normpath(os_path_join(BaseDir, profile))
                 output_file == normpath(os_path_join(os_path_join(BaseDir, profile), profile \o dot_csv))
                 dirs        == IF known THEN state.dirs ELSE makedirs(state.dirs, profile_dir)
                 filtered    == [c \in DOMAIN row \cap Range(fieldnames) |-> row[c]]
             IN  IF ~known /\ (~IsDir(dirs, Dirname(output_file)) \/ IsDir(dirs, output_file))
                 THEN [raised |-> IF IsDir(dirs, output_file) THEN "IsADirectoryError"
                                  ELSE "FileNotFoundError",
                       files  |-> files,
                       state  |-> [state EXCEPT !.dirs = dirs]]
                 ELSE LET handles == IF known THEN state.profile_files
                                     ELSE (profile :> [path |-> output_file, closed |-> FALSE])
                                          @@ state.profile_files
                          path    == handles[profile].path
                          before  == IF known THEN files[path].rows ELSE <<>>
                      IN  [raised |-> "",
                           files  |-> to_csv(files, path,
                                             [columns |-> fieldnames, rows |-> Append(before, filtered)]),
                           state  |-> [next |-> state.next + 1, profile_files |-> handles, dirs |-> dirs]]

\* for file in profile_files.values(): file.close()
close_profile_files(profile_files) ==
    [profile \in DOMAIN profile_files |-> [profile_files[profile] EXCEPT !.closed = TRUE]]

\* the input files tried: PROFILE values that are plain names, '..' or hold a
\* slash; one row may hold bytes that are not UTF-8; or there is no PROFILE column
ProfileValues == { <<"A">>, <<"B">>, <<".", ".">>, <<"A", "/", "B">> }

FilesProfile ==
    { [columns |-> <<"PROFILE", "DATE_ID">>, rows |-> rows, undecodable |-> k] :
        rows \in SeqsUpTo({ [PROFILE |-> profile, DATE_ID |-> 1] : profile \in ProfileValues }, MaxRows),
        k \in 0..MaxRows }
    \cup { [columns |-> <<"DATE_ID">>, rows |-> rows, undecodable |-> 0] :
             rows \in SeqsUpTo({ [DATE_ID |-> 1] }, 1) }

InitProfile ==
    /\ prog = "csv_splitter"
    /\ pc = "rows"
    /\ arg = [next |-> 1, profile_files |-> <<>>, dirs |-> {}]
    /\ ret = None
    /\ disk \in { file \in FilesProfile : file.undecodable <= Len(file.rows) }
    /\ fs = <<>>
    /\ printed = <<>>

RowProfile ==
    /\ prog = "csv_splitter" /\ pc = "rows" /\ arg.next <= Len(disk.rows)
    /\ LET out == profile_row(disk, fs, arg)
       IN  /\ fs' = out.files
           /\ arg' = out.state
           /\ pc' = IF out.raised # "" THEN "raised" ELSE "rows"
           /\ printed' = IF out.raised # ""
                         THEN <<[msg |-> "Traceback", error |-> out.raised]>> ELSE <<>>
    /\ UNCHANGED <<prog, ret, disk>>

\* the rows are read: the input is closed, then the handles, then the count is printed
CloseProfile ==
    /\ prog = "csv_splitter" /\ pc = "rows" /\ arg.next > Len(disk.rows)
    /\ arg' = [arg EXCEPT !.profile_files = close_profile_files(@)]
    /\ pc' = "done"
    /\ printed' = <<[msg |-> "Split CSV files based on profiles", profiles |-> Cardinality(DOMAIN arg.profile_files)]>>
    /\ UNCHANGED <<prog, ret, disk, fs>>

NextProfile == RowProfile \/ CloseProfile

SpecProfile == InitProfile /\ [][NextProfile]_vars

FinishedProfile == prog = "csv_splitter" /\ pc \in {"done", "raised"}

\* C27: when split_csv_by_profile finishes, by returning or by raising, every
\* per-profile output file it opened has been closed.
C27_ProfileFilesAreClosed ==
    FinishedProfile =>
        \A profile \in DOMAIN arg.profile_files : arg.profile_files[profile].closed

\* the path lies in output_base_dir
InsideBase(path) ==
    ~path.absolute /\ path.pieces # <<>> /\ path.pieces[1] = output_base_dir

\* C28: every directory and file split_csv_by_profile creates lies inside
\* output_base_dir, whatever the PROFILE values are.
C28_OutputStaysInBaseDir ==
    prog = "csv_splitter" =>
        /\ \A path \in DOMAIN fs : InsideBase(path)
        /\ \A dir \in arg.dirs : dir.pieces # <<>> => InsideBase(dir)

(***************************************************************************)
(* A session of csv_splitter_v3.0's main in which the user names one file  *)
(* after another, all split into the one output directory.                 *)
(***************************************************************************)
MaxSessionRows == 2

\* the files at hand: rows of the operational day 2024-01-01 and rows without a
\* timestamp
SessionFiles ==
    { [columns |-> <<"Timestamp", "Value">>, rows |-> rows] :
        rows \in SeqsUpTo({ [Timestamp |-> text, Value |-> v] :
                              text \in { Iso(At(D0101, 7, 30)), BadText }, v \in {10, 20} },
                          MaxSessionRows) }

InitSession ==
    /\ prog = "csv_splitter_v3.0"
    /\ pc = "prompt"
    /\ arg = None
    /\ ret = None
    /\ disk \in SessionFiles
    /\ fs = <<>>
    /\ printed = <<>>

\* the user names one of the files: split_csv_by_7am_days runs on it, then the
\* y/n question
SplitNamed7am ==
    /\ prog = "csv_splitter_v3.0" /\ pc = "prompt"
    /\ \E file \in SessionFiles :
          /\ disk' = file
          /\ \E out \in split_csv_by_7am_days(file, fs) :
                /\ fs' = out.files
                /\ printed' = out.printed
    /\ pc' = "another"
    /\ UNCHANGED <<prog, arg, ret>>

NextSession == Quit7am \/ MissingPath7am \/ SplitNamed7am \/ Another7am

SpecSession == InitSession /\ [][NextSession]_vars

\* C29: in a session of csv_splitter_v3.0 output written for an earlier file is
\* never lost: every file written so far is still there after the next run and
\* still holds each of its rows, the day files and skipped_rows.csv alike.
C29_EarlierOutputIsKept ==
    [][ prog = "csv_splitter_v3.0" =>
          \A path \in DOMAIN fs :
             /\ path \in DOMAIN fs'
             /\ \A r \in Range(fs[path].rows) :
                   Count(r, fs'[path].rows) >= Count(r, fs[path].rows) ]_vars

(***************************************************************************)
(* data_processing.verify_file_format, over the names split_csv_by_day     *)
(* gives its files and over names put together from a few parts.           *)
(***************************************************************************)
\* str.endswith
EndsWith(text, suffix) ==
    Len(text) >= Len(suffix) /\ SubSeq(text, Len(text) - Len(suffix) + 1, Len(text)) = suffix

\* str.split(sep)
RECURSIVE SplitOn(_, _)
SplitOn(text, sep) ==
    LET starts == { i \in 1..(Len(text) - Len(sep) + 1) : SubSeq(text, i, i + Len(sep) - 1) = sep }
    IN  IF starts = {} THEN <<text>>
        ELSE LET i == CHOOSE i \in starts : \A j \in starts : i <= j
             IN  <<SubSeq(text, 1, i - 1)>> \o SplitOn(SubSeq(text, i + Len(sep), Len(text)), sep)

\* os.path.basename
basename(file_path) == LET pieces == SplitSlash(file_path) IN pieces[Len(pieces)]

\* the texts pandas reads as a missing timestamp
nat_strings == { <<>>, <<"N", "a", "T">>, <<"n", "a", "n">> }

\* pd.to_datetime(text, format='%Y-%m-%d'): NaT for a text that stands for a
\* missing value; None for ValueError; the year has four digits, the month and
\* the day one or two
to_datetime_ymd(text) ==
    LET fields == SplitOn(text, <<"-">>)
        digits(s, lo, hi) == Len(s) \in lo..hi /\ \A i \in DOMAIN s : IsDigit(s[i])
    IN  IF text \in nat_strings THEN NaT
        ELSE IF Len(fields) # 3 THEN None
        ELSE IF ~(digits(fields[1], 4, 4) /\ digits(fields[2], 1, 2) /\ digits(fields[3], 1, 2)) THEN None
        ELSE LET y == Num(fields[1])
                 m == Num(fields[2])
                 d == Num(fields[3])
             IN  IF m \in 1..12 /\ d >= 1 /\ d <= DaysInMonth(y, m)
                 THEN [y |-> y, m |-> m, d |-> d, hh |-> 0, mm |-> 0]
                 ELSE None

to_sep == <<"_", "t", "o", "_">>

verify_file_format(file_path) ==
    LET file_name  == basename(file_path)
        date_part  == SplitOn(file_name, <<".">>)[1]
        date_range == SplitOn(date_part, to_sep)
    IN  IF ~EndsWith(file_name, dot_csv) THEN FALSE
        ELSE IF Len(date_range) # 2 THEN FALSE
        ELSE to_datetime_ymd(date_range[1]) # None /\ to_datetime_ymd(date_range[2]) # None

\* the names split_csv_by_day gives the files of the days of the calendar
DayFileNames == { DayWindow(StrfYmd(date)).filename : date \in {D1231, D0101, D0102} }

\* the parts names are put together from, and what may follow them
NameParts ==
    { StrfYmd(D0101), StrfYmd(D0102), <<"2", "0", "2", "4", "-", "0", "2", "-", "3", "0">>,
      <<"x">>, <<>> }

NameEnds == { dot_csv, <<".", "t", "x", "t">>, <<".", "x">> \o dot_csv, <<>> }

RECURSIVE JoinWith(_, _)
JoinWith(parts, sep) ==
    IF Len(parts) = 1 THEN parts[1] ELSE parts[1] \o sep \o JoinWith(Tail(parts), sep)

FileNames ==
    DayFileNames
    \cup { JoinWith(parts, to_sep) \o end :
             parts \in SeqsUpTo(NameParts, MaxLen) \ {<<>>}, end \in NameEnds }

\* the file lies in the working directory or in the directory by_day
FilePaths == FileNames \cup { by_day \o <<"/">> \o name : name \in FileNames }

InitVerify ==
    /\ prog = "verify_file_format"
    /\ pc = "call"
    /\ arg \in FilePaths
    /\ ret = None
    /\ disk = None
    /\ fs = <<>>
    /\ printed = <<>>

\* main_V1.0: if not verify_file_format(input_file): print the error
CallVerify ==
    /\ prog = "verify_file_format" /\ pc = "call"
    /\ ret' = [accepted |-> verify_file_format(arg)]
    /\ pc' = "returned"
    /\ printed' = IF verify_file_format(arg) THEN <<>>
                  ELSE <<[msg |-> "Error: File format is incorrect."]>>
    /\ UNCHANGED <<prog, arg, disk, fs>>

NextVerify == CallVerify

SpecVerify == InitVerify /\ [][NextVerify]_vars

Verified == prog = "verify_file_format" /\ pc = "returned"

\* the name without its extension .csv consists of exactly two parts separated
\* by _to_ and each part reads as a date YYYY-MM-DD
TwoDates(file_name) ==
    /\ EndsWith(file_name, dot_csv)
    /\ LET stem  == SubSeq(file_name, 1, Len(file_name) - Len(dot_csv))
           parts == SplitOn(stem, to_sep)
       IN  /\ Len(parts) = 2
           /\ \A k \in 1..2 : to_datetime_ymd(parts[k]) \notin {None, NaT}

\* C30: verify_file_format accepts every file name split_csv_by_day produces, and
\* rejects every name that does not end in .csv or whose stem is not two dates
\* YYYY-MM-DD separated by _to_.
C30_NameRoundTrip ==
    Verified =>
        /\ basename(arg) \in DayFileNames => ret.accepted
        /\ ~TwoDates(basename(arg)) => ~ret.accepted

=============================================================================
